---- MODULE Spec2Model ----
(***************************************************************************)
(* Verification model of glowbarn-rs: the ensemble anomaly detector, the   *)
(* fusion engine, the sensor correlator, the detection task and the event  *)
(* bus.                                                                    *)
(*                                                                         *)
(* Reals of the source (f64) are modelled exactly where the arithmetic is  *)
(* rational: a value is a fraction [n |-> numerator, d |-> denominator],   *)
(* compared by cross multiplication.  Where the source takes a square root *)
(* or an exponential, the value is a fixed-point integer and the rounding  *)
(* is stated at the definition.                                            *)
(*                                                                         *)
(* Each component has its own specification (SpecMerge, SpecCusum, ...).   *)
(* The variables of the other components stay at their initial value.      *)
(***************************************************************************)
EXTENDS Integers, Sequences, FiniteSets, TLC

VARIABLES
    \* ---- AnomalyDetector::detect (analysis/anomaly.rs) ----
    det_stat,       \* result of detect_statistical
    det_iforest,    \* result of detect_isolation_forest
    det_cusum,      \* result of detect_cusum
    det_lof,        \* result of detect_lof
    merged,         \* the Vec<Anomaly> detect returns
    dpc,            \* "input" before detect ran, "done" after
    wlen,           \* data.len() of the window handed to detect
    \* ---- AnomalyDetector::detect_cusum (analysis/anomaly.rs) ----
    cdata,          \* data: &[f64], in hundredths
    cmean,          \* mean
    cstd,           \* std
    ci,             \* the loop's index i
    cusum_pos,      \* cusum_pos
    cusum_neg,      \* cusum_neg
    cusum_out,      \* anomalies, the Vec<Anomaly> being built
    cpc,            \* "start", "loop", "done"
    \* ---- FusionEngine (detection/fusion.rs) ----
    bm1,            \* m1 of combine_belief_masses
    bm2,            \* m2 of combine_belief_masses
    bmOut,          \* its result; NoMass before the call
    sensor_weights, \* FusionEngine::sensor_weights
    readings,       \* the batch handed to a fusion call
    fresult,        \* what the last fusion call returned; NoResult before
    \* ---- SensorCorrelator (detection/correlation.rs) ----
    now,            \* Utc::now(), in ms
    buffers,        \* SensorCorrelator::buffers: sensor id -> VecDeque
    arrivals,       \* number of add_reading calls so far
    corr_event,     \* what the last check_correlation returned
    lastop,         \* the last call: "new", "add", "check", or "tick"
    \* ---- DetectionEngine::process_reading (detection/mod.rs) ----
    mutex,          \* DetectionEngine::correlator's lock: 0 free, else the holder
    tpc,            \* task -> where it is in process_reading
    tctx,           \* task -> reading being added, buffers at lock time, cutoff
    \* ---- EventBus::reading_tx (core/event_bus.rs) ----
    channel,        \* every reading the broadcast channel stored, in order
    sent,           \* number of publish_reading calls so far
    cursor,         \* subscriber -> channel positions it has passed
    rstate,         \* subscriber -> "unsubscribed", "receiving", "stalled", "stopped"
    processed,      \* subscriber -> readings handed to its process_reading
    due,            \* subscriber -> readings published while it was subscribed
    shutdown,       \* the shutdown signal was sent
    \* ---- SensorManager::run (sensors/manager.rs) ----
    mpc,            \* "select", "reading", "stopped"
    \* ---- calls of pure functions (analysis/statistics.rs, ...) ----
    call,           \* the function called and its arguments
    result,         \* what it returned; NoReturn before the call
    \* ---- DetectionEngine (detection/mod.rs) ----
    recent_detections, \* DetectionEngine::recent_detections
    detection_count,   \* DetectionEngine::detection_count
    published,         \* the detections handed to EventBus::publish_detection
    passes,            \* calls the engine made of its fusion_engine and classifier
    \* ---- AuthManager (security/auth.rs) ----
    sessions,       \* AuthManager::sessions: session id -> Session
    auth_now,       \* Utc::now(), in seconds
    issued,         \* session id -> the Session create_session returned
    invalidated,    \* the ids made inactive by invalidate_session or invalidate_all_sessions
    auth_ret,        \* what the last call returned
    \* ---- DetectionEngine::record_detection (detection/mod.rs) ----
    rec_pc, \* "idle", "counted" (count incremented), "stored" (pushed to recent)
    rec_detection, \* the Detection being recorded
    \* ---- EventBus generic event channel (core/event_bus.rs) ----
    event_counter, \* EventBus::event_counter
    typed_sent, \* sends on reading_tx and detection_tx, counted
    event_tx, \* the events sent on event_tx, in the order sent
    ev_pc, \* publisher -> "idle" or "assigned" (id taken, event not yet sent)
    ev_event, \* publisher -> the Event it has built
    ev_cursor, \* the subscriber has got past this many events of event_tx
    ev_received, \* the ids of the events the subscriber received, in order
    \* ---- SensorManager registry (sensors/manager.rs) ----
    reg_sensors, \* SensorManager::sensors: sensor id -> the sensor (its type)
    reg_health, \* SensorManager::health: sensor id -> SensorHealth
    reg_ret, \* what the last add_sensor or remove_sensor returned
    \* ---- WebSocketServer (streaming/websocket.rs) ----
    ws_clients, \* WebSocketServer::clients: client id -> ClientHandle
    ws_conn, \* connection -> "none", "rejected", "handshake", "failed", "registered", "closed"
    \* ---- AuthManager lockout (security/auth.rs) ----
    failed_attempts, \* AuthManager::failed_attempts: identifier -> (attempts, last_attempt)
    lock_now, \* Utc::now(), in minutes
    since_clear, \* identifier -> failed attempts since its last clear, and the time of the latest
    lock_ret \* what the last is_locked_out returned, and for whom

mergeVars == <<det_stat, det_iforest, det_cusum, det_lof, merged, dpc>>

cusumVars == <<cdata, cmean, cstd, ci, cusum_pos, cusum_neg, cusum_out, cpc>>

combineVars == <<bm1, bm2, bmOut>>

fusionVars == <<sensor_weights, readings, fresult>>

corrVars == <<now, buffers, arrivals, corr_event, lastop>>

taskVars == <<mutex, tpc, tctx>>

busVars == <<channel, sent, cursor, rstate, processed, due, shutdown>>

managerVars == <<mpc>>

windowVars == <<wlen>>

pureVars == <<call, result>>

detectVars == <<recent_detections, detection_count, published, passes>>

authVars == <<sessions, auth_now, issued, invalidated, auth_ret>>

recordVars == <<rec_pc, rec_detection>>

eventVars == <<event_counter, typed_sent, event_tx, ev_pc, ev_event, ev_cursor, ev_received>>

registryVars == <<reg_sensors, reg_health, reg_ret>>

wsVars == <<ws_clients, ws_conn>>

lockoutVars == <<failed_attempts, lock_now, since_clear, lock_ret>>

vars == <<mergeVars, cusumVars, combineVars, fusionVars, corrVars, taskVars, busVars, managerVars, windowVars, pureVars, detectVars, authVars, recordVars, eventVars, registryVars, wsVars, lockoutVars>>

\* What an action of one component leaves alone: the other components.
NotMerge == <<cusumVars, combineVars, fusionVars, corrVars, taskVars, busVars, managerVars, windowVars, pureVars, detectVars, authVars, recordVars, eventVars, registryVars, wsVars, lockoutVars>>

NotCusum == <<mergeVars, combineVars, fusionVars, corrVars, taskVars, busVars, managerVars, windowVars, pureVars, detectVars, authVars, recordVars, eventVars, registryVars, wsVars, lockoutVars>>

NotCombine == <<mergeVars, cusumVars, fusionVars, corrVars, taskVars, busVars, managerVars, windowVars, pureVars, detectVars, authVars, recordVars, eventVars, registryVars, wsVars, lockoutVars>>

NotCorr == <<mergeVars, cusumVars, combineVars, fusionVars, taskVars, busVars, managerVars, windowVars, pureVars, detectVars, authVars, recordVars, eventVars, registryVars, wsVars, lockoutVars>>

\* The detection task works on the correlator.
NotTasks == <<mergeVars, cusumVars, combineVars, fusionVars, busVars, managerVars, windowVars, pureVars, detectVars, authVars, recordVars, eventVars, registryVars, wsVars, lockoutVars>>

NotBus == <<mergeVars, cusumVars, combineVars, fusionVars, corrVars, taskVars, managerVars, windowVars, pureVars, detectVars, authVars, recordVars, eventVars, registryVars, wsVars, lockoutVars>>

\* The run loops: the bus with its subscribers, and the sensor manager.
NotRun == <<mergeVars, cusumVars, combineVars, fusionVars, corrVars, taskVars, windowVars, pureVars, detectVars, authVars, recordVars, eventVars, registryVars, wsVars, lockoutVars>>

\* detect on a window of a given length: the merge and the window.
NotWindow == <<cusumVars, combineVars, fusionVars, corrVars, taskVars, busVars, managerVars, pureVars, detectVars, authVars, recordVars, eventVars, registryVars, wsVars, lockoutVars>>

\* A call of a pure function touches nothing but its own result.
NotPure == <<mergeVars, cusumVars, combineVars, fusionVars, corrVars, taskVars, busVars, managerVars, windowVars, detectVars, authVars, recordVars, eventVars, registryVars, wsVars, lockoutVars>>

\* The detection engine works on its correlator.
NotDetect == <<mergeVars, cusumVars, combineVars, fusionVars, taskVars, busVars, managerVars, windowVars, pureVars, authVars, recordVars, eventVars, registryVars, wsVars, lockoutVars>>

NotAuth == <<mergeVars, cusumVars, combineVars, fusionVars, corrVars, taskVars, busVars, managerVars, windowVars, pureVars, detectVars, recordVars, eventVars, registryVars, wsVars, lockoutVars>>

NotFusion == <<mergeVars, cusumVars, combineVars, corrVars, taskVars, busVars, managerVars, windowVars, pureVars, detectVars, authVars, recordVars, eventVars, registryVars, wsVars, lockoutVars>>

NotRecord == <<mergeVars, cusumVars, combineVars, fusionVars, corrVars, taskVars, busVars, managerVars, windowVars, pureVars, authVars, eventVars, registryVars, wsVars, lockoutVars>>

NotEvents == <<mergeVars, cusumVars, combineVars, fusionVars, corrVars, taskVars, busVars, managerVars, windowVars, pureVars, detectVars, authVars, recordVars, registryVars, wsVars, lockoutVars>>

NotRegistry == <<mergeVars, cusumVars, combineVars, fusionVars, corrVars, taskVars, busVars, managerVars, windowVars, pureVars, detectVars, authVars, recordVars, eventVars, wsVars, lockoutVars>>

NotWs == <<mergeVars, cusumVars, combineVars, fusionVars, corrVars, taskVars, busVars, managerVars, windowVars, pureVars, detectVars, authVars, recordVars, eventVars, registryVars, lockoutVars>>

NotLockout == <<mergeVars, cusumVars, combineVars, fusionVars, corrVars, taskVars, busVars, managerVars, windowVars, pureVars, detectVars, authVars, recordVars, eventVars, registryVars, wsVars>>

----------------------------------------------------------------------------
(* Generic helpers                                                         *)

Max(a, b) == IF a >= b THEN a ELSE b

Min(a, b) == IF a <= b THEN a ELSE b

Range(s) == {s[i] : i \in DOMAIN s}

----------------------------------------------------------------------------
(* AnomalyDetector::detect: concatenate, deduplicate, sort by score        *)

\* Largest sample index of the modelled window (indices 0..MaxIndex).
MaxIndex == 1

Indices == 0 .. MaxIndex

NoAnomaly == 0

\* Scores in tenths.  A detector reports at most one anomaly per index; the
\* values are ones each detector can produce: a z-score above the threshold
\* 3.0, an isolation score * 10 in (6, 10], a CUSUM ratio above 1.0, a LOF
\* above 1.5.
StatScores == {35, 50}

IForestScores == {70}

CusumScores == {20}

LofScores == {20, 50}

\* A detector's result as the list of anomalies it pushed, by rising index.
RECURSIVE ResultList(_, _)
ResultList(f, i) ==
    IF i > MaxIndex THEN <<>>
    ELSE (IF f[i] = NoAnomaly THEN <<>> ELSE <<[index |-> i, score |-> f[i]]>>)
         \o ResultList(f, i + 1)

DetectorResults(scores) ==
    {ResultList(f, 0) : f \in [Indices -> scores \cup {NoAnomaly}]}

\* anomalies.sort_by_key(|a| a.index): a stable sort, so anomalies of one
\* index keep the order of the concatenation.
RECURSIVE InsertByIndex(_, _)
InsertByIndex(s, x) ==
    IF s = <<>> THEN <<x>>
    ELSE IF s[1].index <= x.index THEN <<s[1]>> \o InsertByIndex(Tail(s), x)
    ELSE <<x>> \o s

RECURSIVE SortByIndex(_)
SortByIndex(s) ==
    IF s = <<>> THEN <<>>
    ELSE InsertByIndex(SortByIndex(SubSeq(s, 1, Len(s) - 1)), s[Len(s)])

\* anomalies.sort_by(|a, b| b.score.partial_cmp(&a.score)): stable, by
\* falling score.
RECURSIVE InsertByScoreDesc(_, _)
InsertByScoreDesc(s, x) ==
    IF s = <<>> THEN <<x>>
    ELSE IF s[1].score >= x.score THEN <<s[1]>> \o InsertByScoreDesc(Tail(s), x)
    ELSE <<x>> \o s

RECURSIVE SortByScoreDesc(_)
SortByScoreDesc(s) ==
    IF s = <<>> THEN <<>>
    ELSE InsertByScoreDesc(SortByScoreDesc(SubSeq(s, 1, Len(s) - 1)), s[Len(s)])

\* anomalies.retain(|a| seen.insert(a.index)): keep the first of each index.
RECURSIVE RetainFirst(_, _)
RetainFirst(s, seen) ==
    IF s = <<>> THEN <<>>
    ELSE IF s[1].index \in seen THEN RetainFirst(Tail(s), seen)
    ELSE <<s[1]>> \o RetainFirst(Tail(s), seen \cup {s[1].index})

\* Sorting by index without the retain: what deduplicate_anomalies rules out.
SortedByIndexOnly(anoms) == SortByIndex(anoms)

deduplicate_anomalies(anoms) == RetainFirst(SortByIndex(anoms), {})

Concatenate(st, fo, cu, lo) == st \o fo \o cu \o lo

detect(st, fo, cu, lo) ==
    SortByScoreDesc(deduplicate_anomalies(Concatenate(st, fo, cu, lo)))

InitMerge ==
    /\ det_stat \in DetectorResults(StatScores)
    /\ det_iforest \in DetectorResults(IForestScores)
    /\ det_cusum \in DetectorResults(CusumScores)
    /\ det_lof \in DetectorResults(LofScores)
    /\ merged = <<>>
    /\ dpc = "input"

Detect ==
    /\ dpc = "input"
    /\ merged' = detect(det_stat, det_iforest, det_cusum, det_lof)
    /\ dpc' = "done"
    /\ UNCHANGED <<det_stat, det_iforest, det_cusum, det_lof>>
    /\ UNCHANGED NotMerge

IdleMerge ==
    /\ det_stat = <<>>
    /\ det_iforest = <<>>
    /\ det_cusum = <<>>
    /\ det_lof = <<>>
    /\ merged = <<>>
    /\ dpc = "idle"

NextMerge == Detect

----------------------------------------------------------------------------
(* AnomalyDetector::detect_cusum                                           *)

\* f64 samples are fixed-point integers in hundredths.  The mean is rounded
\* down to a hundredth and the standard deviation to the integer square
\* root; the modelled series keep every comparison away from a tie.
Centi == 100

\* Index of the first sample of the higher level of a stepped series.
StepAt == 50

\* Lengths of the modelled windows: one below the detector's minimum, the
\* others with the step inside.
CusumLengths == {10, 60, 80, 100}

\* Height of the step and amplitude of the alternating noise, in units.
StepHeights == {0, 10}

NoiseAmplitudes == {0, 1}

\* A series of n samples: noise +e, -e, +e, ... around 0 on indices below
\* StepAt, around a from StepAt on.  TLA+ sequences start at 1: sample i of
\* the source is element i + 1.
SteppedSeries(n, a, e) ==
    [j \in 1 .. n |->
        Centi * ((IF (j - 1) % 2 = 0 THEN e ELSE -e) + (IF j - 1 >= StepAt THEN a ELSE 0))]

\* Levels of the blocks of a block series, in units.
BlockLevels == {-10, 0, 10}

\* A series of 20 samples in four blocks of five, each block at its level.
BlockSeries(levels) == [j \in 1 .. 20 |-> Centi * levels[((j - 1) \div 5) + 1]]

RECURSIVE SumSeq(_)
SumSeq(s) == IF s = <<>> THEN 0 ELSE s[1] + SumSeq(Tail(s))

RECURSIVE SumSqDev(_, _)
SumSqDev(s, m) ==
    IF s = <<>> THEN 0 ELSE (s[1] - m) * (s[1] - m) + SumSqDev(Tail(s), m)

\* floor(sqrt(v)) by bisection on lo..hi, lo * lo <= v < (hi + 1) * (hi + 1).
RECURSIVE ISqrtIn(_, _, _)
ISqrtIn(v, lo, hi) ==
    IF lo >= hi THEN lo
    ELSE LET mid == (lo + hi + 1) \div 2
         IN IF mid * mid <= v THEN ISqrtIn(v, mid, hi) ELSE ISqrtIn(v, lo, mid - 1)

ISqrt(v) == ISqrtIn(v, 0, 40000)

Mean(data) == SumSeq(data) \div Len(data)

\* variance over n - 1, then the square root; 0.0 for fewer than 2 samples.
std_dev(data) ==
    IF Len(data) < 2 THEN 0
    ELSE ISqrt(SumSqDev(data, Mean(data)) \div (Len(data) - 1))

\* if data.len() < 20 { return anomalies; }
CusumMinLen == 20

\* let k = 0.5 * std; let h = 5.0 * std;
Slack(std) == std \div 2

DecisionInterval(std) == 5 * std

InitCusum ==
    /\ \/ \E n \in CusumLengths, a \in StepHeights, e \in NoiseAmplitudes :
              cdata = SteppedSeries(n, a, e)
       \/ \E levels \in [1 .. 4 -> BlockLevels] : cdata = BlockSeries(levels)
    /\ cmean = 0
    /\ cstd = 0
    /\ ci = 0
    /\ cusum_pos = 0
    /\ cusum_neg = 0
    /\ cusum_out = <<>>
    /\ cpc = "start"

\* Lines 181-198: the two early returns, then mean, std and the zeroed
\* accumulators.  std < 1e-10 is std = 0 at this resolution.
CusumStart ==
    /\ cpc = "start"
    /\ IF Len(cdata) < CusumMinLen
       THEN cpc' = "done" /\ UNCHANGED <<cmean, cstd>>
       ELSE /\ cmean' = Mean(cdata)
            /\ cstd' = std_dev(cdata)
            /\ cpc' = IF std_dev(cdata) = 0 THEN "done" ELSE "loop"
    /\ UNCHANGED <<cdata, ci, cusum_pos, cusum_neg, cusum_out>>
    /\ UNCHANGED NotCusum

\* The negative side adding the sample instead of subtracting it: what
\* NegAfter rules out.
NegAddsSample(neg, x, mean, std) == Max(neg + x - mean - Slack(std), 0)

\* The accumulators after adding sample x, before the threshold tests.
PosAfter(pos, x, mean, std) == Max(pos + x - mean - Slack(std), 0)

NegAfter(neg, x, mean, std) == Max(neg - x + mean - Slack(std), 0)

\* An accumulator that is left as it is over h: what ResetIfOver rules out.
KeptWhenOver(acc, h) == acc

\* if cusum_pos > h { push; cusum_pos = 0.0; }
ResetIfOver(acc, h) == IF acc > h THEN 0 ELSE acc

\* One ChangePoint per side whose accumulator is over h, positive side first.
\* The score cusum / h is kept as the fraction [n, d].
ChangePoints(i, p, q, h) ==
    (IF p > h THEN <<[index |-> i, side |-> "pos", score |-> [n |-> p, d |-> h]]>> ELSE <<>>)
    \o (IF q > h THEN <<[index |-> i, side |-> "neg", score |-> [n |-> q, d |-> h]]>> ELSE <<>>)

\* One iteration of for (i, &x) in data.iter().enumerate(), lines 200-225.
CusumStep ==
    /\ cpc = "loop"
    /\ ci < Len(cdata)
    /\ LET x == cdata[ci + 1]
           h == DecisionInterval(cstd)
           p == PosAfter(cusum_pos, x, cmean, cstd)
           q == NegAfter(cusum_neg, x, cmean, cstd)
       IN /\ cusum_out' = cusum_out \o ChangePoints(ci, p, q, h)
          /\ cusum_pos' = ResetIfOver(p, h)
          /\ cusum_neg' = ResetIfOver(q, h)
    /\ ci' = ci + 1
    /\ UNCHANGED <<cdata, cmean, cstd, cpc>>
    /\ UNCHANGED NotCusum

\* The loop is over: detect_cusum returns anomalies.
CusumReturn ==
    /\ cpc = "loop"
    /\ ci = Len(cdata)
    /\ cpc' = "done"
    /\ UNCHANGED <<cdata, cmean, cstd, ci, cusum_pos, cusum_neg, cusum_out>>
    /\ UNCHANGED NotCusum

----------------------------------------------------------------------------
----------------------------------------------------------------------------
(* AnomalyDetector::detect on a window of wlen samples: each detector      *)
(* returns at once when the window is shorter than its minimum             *)

\* if data.len() < 10 { return anomalies; }
StatisticalMinLen == 10

\* if data.len() < 100 { return anomalies; }
IForestMinLen == 100

\* if data.len() < 20 { return anomalies; }
LofMinLen == 20

\* Window lengths on both sides of every minimum.
WindowLengths == {0, 1, 9, 10, 19, 20, 99, 100}

\* A minimum that lets a window one sample too short through: what
\* BelowMinimum rules out.
BelowMinimumLess1(len, min) == len < min - 1

\* data.len() < min
BelowMinimum(len, min) == len < min

\* What a detector returns: nothing below its minimum, else whatever its
\* loop pushed.
Gated(len, min, pushed) == IF BelowMinimum(len, min) THEN <<>> ELSE pushed

InitWindow ==
    /\ wlen \in WindowLengths
    /\ det_stat = <<>>
    /\ det_iforest = <<>>
    /\ det_cusum = <<>>
    /\ det_lof = <<>>
    /\ merged = <<>>
    /\ dpc = "input"

\* anomalies.extend(self.detect_statistical(data))
DetectStatistical ==
    /\ dpc = "input"
    /\ \E pushed \in DetectorResults(StatScores) :
           det_stat' = Gated(wlen, StatisticalMinLen, pushed)
    /\ dpc' = "iforest"
    /\ UNCHANGED <<det_iforest, det_cusum, det_lof, merged, wlen>>
    /\ UNCHANGED NotWindow

\* anomalies.extend(self.detect_isolation_forest(data))
DetectIsolationForest ==
    /\ dpc = "iforest"
    /\ \E pushed \in DetectorResults(IForestScores) :
           det_iforest' = Gated(wlen, IForestMinLen, pushed)
    /\ dpc' = "cusum"
    /\ UNCHANGED <<det_stat, det_cusum, det_lof, merged, wlen>>
    /\ UNCHANGED NotWindow

\* anomalies.extend(self.detect_cusum(data))
DetectCusum ==
    /\ dpc = "cusum"
    /\ \E pushed \in DetectorResults(CusumScores) :
           det_cusum' = Gated(wlen, CusumMinLen, pushed)
    /\ dpc' = "lof"
    /\ UNCHANGED <<det_stat, det_iforest, det_lof, merged, wlen>>
    /\ UNCHANGED NotWindow

\* anomalies.extend(self.detect_lof(data))
DetectLof ==
    /\ dpc = "lof"
    /\ \E pushed \in DetectorResults(LofScores) :
           det_lof' = Gated(wlen, LofMinLen, pushed)
    /\ dpc' = "merge"
    /\ UNCHANGED <<det_stat, det_iforest, det_cusum, merged, wlen>>
    /\ UNCHANGED NotWindow

\* deduplicate_anomalies, the sort by score, and the return
MergeWindow ==
    /\ dpc = "merge"
    /\ merged' = detect(det_stat, det_iforest, det_cusum, det_lof)
    /\ dpc' = "done"
    /\ UNCHANGED <<det_stat, det_iforest, det_cusum, det_lof, wlen>>
    /\ UNCHANGED NotWindow

NextWindow ==
    DetectStatistical \/ DetectIsolationForest \/ DetectCusum \/ DetectLof \/ MergeWindow

IdleWindow == wlen = 0

IdleCusum ==
    /\ cdata = <<>>
    /\ cmean = 0
    /\ cstd = 0
    /\ ci = 0
    /\ cusum_pos = 0
    /\ cusum_neg = 0
    /\ cusum_out = <<>>
    /\ cpc = "idle"

NextCusum == CusumStart \/ CusumStep \/ CusumReturn

----------------------------------------------------------------------------
(* Exact fractions for the f64 arithmetic of the fusion engine             *)

RECURSIVE GCD(_, _)
GCD(a, b) == IF b = 0 THEN a ELSE GCD(b, a % b)

\* The fraction n / d in lowest terms.  d = 0 stands for a quotient by the
\* guard value 1e-10 with a non-zero numerator: a value above every bound.
Frac(n, d) ==
    IF d = 0 THEN [n |-> 1, d |-> 0]
    ELSE IF n = 0 THEN [n |-> 0, d |-> 1]
    ELSE LET g == GCD(n, d) IN [n |-> n \div g, d |-> d \div g]

Zero == Frac(0, 1)

One == Frac(1, 1)

Half == Frac(1, 2)

FAdd(a, b) == Frac(a.n * b.d + b.n * a.d, a.d * b.d)

FSub(a, b) == Frac(a.n * b.d - b.n * a.d, a.d * b.d)

FMul(a, b) == Frac(a.n * b.n, a.d * b.d)

FLe(a, b) == a.n * b.d <= b.n * a.d

FLt(a, b) == a.n * b.d < b.n * a.d

\* a / b.max(1e-10) for b >= 0.  The modelled values are fractions with
\* denominators far below 1e10, so b.max(1e-10) is b unless b = 0, and a
\* quotient by 1e-10 is 0 for a = 0 and out of range otherwise.
DivGuarded(a, b) ==
    IF b.n > 0 THEN Frac(a.n * b.d, a.d * b.n)
    ELSE IF a.n = 0 THEN Zero
    ELSE Frac(1, 0)

\* x > 1e-10, for the same values.
\* An f64 is a fraction, an infinity or NaN.
PosInf == [inf |-> 1]

NegInf == [inf |-> -1]

NaN == [nan |-> TRUE]

IsFinite(x) == x \notin {PosInf, NegInf, NaN}

AboveEps(x) == x.n > 0 /\ x.d > 0

InUnit(x) == FLe(Zero, x) /\ FLe(x, One) /\ x.d > 0

----------------------------------------------------------------------------
(* FusionEngine::combine_belief_masses                                     *)

\* Belief masses are drawn from the grid of fractions over MassGrid.
MassGrid == 4

NoMass == [none |-> TRUE]

BeliefMass(a, n, u) == [anomaly |-> a, normal |-> n, uncertainty |-> u]

MassSum(m) == FAdd(FAdd(m.anomaly, m.normal), m.uncertainty)

\* Every mass with components in [0,1] on the grid that sum to 1.
UnitMasses ==
    {BeliefMass(Frac(a, MassGrid), Frac(n, MassGrid), Frac(MassGrid - a - n, MassGrid)) :
        a \in 0 .. MassGrid, n \in 0 .. MassGrid} \cap
    [anomaly : {Frac(a, MassGrid) : a \in 0 .. MassGrid},
     normal : {Frac(a, MassGrid) : a \in 0 .. MassGrid},
     uncertainty : {Frac(a, MassGrid) : a \in 0 .. MassGrid}]

\* let k = m1.anomaly * m2.normal + m1.normal * m2.anomaly;
Conflict(m1, m2) ==
    FAdd(FMul(m1.anomaly, m2.normal), FMul(m1.normal, m2.anomaly))

\* let normalizer = (1.0 - k).max(1e-10); every mass is divided by it.
Normalized(x, k) == DivGuarded(x, FSub(One, k))

combine_belief_masses(m1, m2) ==
    LET k == Conflict(m1, m2)
    IN BeliefMass(
         Normalized(FAdd(FAdd(FMul(m1.anomaly, m2.anomaly),
                              FMul(m1.anomaly, m2.uncertainty)),
                         FMul(m1.uncertainty, m2.anomaly)), k),
         Normalized(FAdd(FAdd(FMul(m1.normal, m2.normal),
                              FMul(m1.normal, m2.uncertainty)),
                         FMul(m1.uncertainty, m2.normal)), k),
         Normalized(FMul(m1.uncertainty, m2.uncertainty), k))

InitCombine ==
    /\ bm1 \in UnitMasses
    /\ bm2 \in UnitMasses
    /\ bmOut = NoMass

Combine ==
    /\ bmOut = NoMass
    /\ bmOut' = combine_belief_masses(bm1, bm2)
    /\ UNCHANGED <<bm1, bm2>>
    /\ UNCHANGED NotCombine

IdleCombine ==
    /\ bm1 = NoMass
    /\ bm2 = NoMass
    /\ bmOut = NoMass

NextCombine == Combine

----------------------------------------------------------------------------
(* FusionEngine: weights, the three fusion strategies, the detection kind  *)

\* Two of the SensorType variants: one with an entry in the default weight
\* table, one without.
SensorTypes == {"ThermalImager", "StaticMeter"}

\* FusionEngine::new: the default table, restricted to the modelled types
\* (ThermalImager 0.85; StaticMeter has no entry).
DefaultWeights == [t \in {"ThermalImager"} |-> Frac(17, 20)]

\* self.sensor_weights.get(&reading.sensor_type).copied().unwrap_or(0.5)
WeightOf(weights, t) == IF t \in DOMAIN weights THEN weights[t] ELSE Half

\* weight.clamp(0.0, 1.0): f64::clamp returns NaN for NaN.
Clamp01(w) ==
    IF w = NaN THEN NaN
    ELSE IF w = NegInf THEN Zero
    ELSE IF w = PosInf THEN One
    ELSE IF FLt(w, Zero) THEN Zero ELSE IF FLt(One, w) THEN One ELSE w

set_sensor_weight(weights, t, w) ==
    [x \in DOMAIN weights \cup {t} |-> IF x = t THEN Clamp01(w) ELSE weights[x]]

\* Values handed to set_sensor_weight: below 0, inside [0,1], above 1.
WeightInputs == {[n |-> -1, d |-> 2], Zero, Half, [n |-> 3, d |-> 2]}

\* Anomaly scores and priors of the modelled batches.
UnitGrid == {Zero, Half, One}

\* A reading is modelled by its sensor type and by the value
\* calculate_anomaly_score gives for its data and quality (a sigmoid scaled
\* by the quality: 0.0 for empty data or quality 0, 1.0 when the sigmoid
\* rounds to 1.0 and the quality is 1).
Readings == [sensor_type : SensorTypes, anomaly_score : UnitGrid]

calculate_anomaly_score(reading) == reading.anomaly_score

\* Longest modelled batch.
MaxBatch == 2

Batches == UNION {[1 .. n -> Readings] : n \in 0 .. MaxBatch}

\* Bayes update of line 112-115: unchanged posterior when evidence <= 1e-10.
BayesUpdate(posterior, score) ==
    LET likelihood_anomaly == score
        likelihood_normal == FSub(One, score)
        evidence == FAdd(FMul(likelihood_anomaly, posterior),
                         FMul(likelihood_normal, FSub(One, posterior)))
    IN IF AboveEps(evidence)
       THEN DivGuarded(FMul(likelihood_anomaly, posterior), evidence)
       ELSE posterior

\* Adding the prior in full instead of by 1 - weight: what Blend rules out.
BlendFullPrior(posterior, weight, prior) ==
    FAdd(FMul(posterior, weight), prior)

\* posterior = posterior * weight + prior_anomaly * (1.0 - weight);
Blend(posterior, weight, prior) ==
    FAdd(FMul(posterior, weight), FMul(prior, FSub(One, weight)))

\* The loop of bayesian_fusion from reading i on.
RECURSIVE BayesLoop(_, _, _, _, _)
BayesLoop(batch, i, posterior, prior, weights) ==
    IF i > Len(batch) THEN posterior
    ELSE BayesLoop(batch, i + 1,
                   Blend(BayesUpdate(posterior, calculate_anomaly_score(batch[i])),
                         WeightOf(weights, batch[i].sensor_type), prior),
                   prior, weights)

\* The belief mass of one reading, lines 167-171.
ReadingMass(score, weight) ==
    BeliefMass(FMul(score, weight), FMul(FSub(One, score), weight), FSub(One, weight))

\* The loop of dempster_shafer_fusion from reading i on.
RECURSIVE DempsterLoop(_, _, _, _)
DempsterLoop(batch, i, combined, weights) ==
    IF i > Len(batch) THEN combined
    ELSE DempsterLoop(batch, i + 1,
                      combine_belief_masses(combined,
                          ReadingMass(calculate_anomaly_score(batch[i]),
                                      WeightOf(weights, batch[i].sensor_type))),
                      weights)

\* Lines 186-191: divide by the total when it is above 1e-10.
NormalizeMass(m) ==
    IF AboveEps(MassSum(m))
    THEN BeliefMass(DivGuarded(m.anomaly, MassSum(m)), DivGuarded(m.normal, MassSum(m)),
                    DivGuarded(m.uncertainty, MassSum(m)))
    ELSE m

\* combined.anomaly / (combined.anomaly + combined.normal).max(1e-10)
MassConfidence(m) == DivGuarded(m.anomaly, FAdd(m.anomaly, m.normal))

RECURSIVE WeightedSum(_, _, _)
WeightedSum(batch, i, weights) ==
    IF i > Len(batch) THEN Zero
    ELSE FAdd(FMul(calculate_anomaly_score(batch[i]), WeightOf(weights, batch[i].sensor_type)),
              WeightedSum(batch, i + 1, weights))

RECURSIVE WeightSum(_, _, _)
WeightSum(batch, i, weights) ==
    IF i > Len(batch) THEN Zero
    ELSE FAdd(WeightOf(weights, batch[i].sensor_type), WeightSum(batch, i + 1, weights))

\* if weight_sum > 1e-10 { weighted_sum / weight_sum } else { 0.0 }
WeightedConfidence(batch, weights) ==
    IF AboveEps(WeightSum(batch, 1, weights))
    THEN DivGuarded(WeightedSum(batch, 1, weights), WeightSum(batch, 1, weights))
    ELSE Zero

\* Iterator::max_by over the contributions: the last of the elements with
\* the largest anomaly_score.
RECURSIVE MaxByScore(_, _, _)
MaxByScore(batch, i, best) ==
    IF i > Len(batch) THEN best
    ELSE MaxByScore(batch, i + 1,
                    IF FLe(calculate_anomaly_score(batch[best]),
                           calculate_anomaly_score(batch[i]))
                    THEN i ELSE best)

DetectionTypeOf(t) ==
    CASE t = "ThermalImager" -> "ThermalAnomaly"
      [] t = "StaticMeter" -> "StaticDischarge"
      [] OTHER -> "Unknown"

classify_from_sensors(batch) ==
    IF batch = <<>> THEN "Unknown"
    ELSE DetectionTypeOf(batch[MaxByScore(batch, 1, 1)].sensor_type)

NoResult == [none |-> TRUE]

FusionResult(method, prior, confidence, kind) ==
    [method |-> method, prior |-> prior, confidence |-> confidence,
     detection_type |-> kind]

EmptyResult(method, prior) == FusionResult(method, prior, Zero, "Unknown")

bayesian_fusion(batch, prior, weights) ==
    IF batch = <<>> THEN EmptyResult("bayesian", prior)
    ELSE FusionResult("bayesian", prior, BayesLoop(batch, 1, prior, prior, weights),
                      classify_from_sensors(batch))

dempster_shafer_fusion(batch, weights) ==
    IF batch = <<>> THEN EmptyResult("dempster_shafer", Zero)
    ELSE FusionResult("dempster_shafer", Zero,
             MassConfidence(NormalizeMass(
                 DempsterLoop(batch, 1, BeliefMass(Zero, Zero, One), weights))),
             classify_from_sensors(batch))

weighted_fusion(batch, weights) ==
    IF batch = <<>> THEN EmptyResult("weighted", Zero)
    ELSE FusionResult("weighted", Zero, WeightedConfidence(batch, weights),
                      classify_from_sensors(batch))

InitFusion ==
    /\ sensor_weights = DefaultWeights
    /\ readings \in Batches
    /\ fresult = NoResult

SetSensorWeight ==
    /\ \E t \in SensorTypes, w \in WeightInputs :
           sensor_weights' = set_sensor_weight(sensor_weights, t, w)
    /\ fresult' = NoResult
    /\ UNCHANGED readings
    /\ UNCHANGED NotFusion

BayesianFusion ==
    /\ \E prior \in UnitGrid :
           fresult' = bayesian_fusion(readings, prior, sensor_weights)
    /\ UNCHANGED <<sensor_weights, readings>>
    /\ UNCHANGED NotFusion

DempsterShaferFusion ==
    /\ fresult' = dempster_shafer_fusion(readings, sensor_weights)
    /\ UNCHANGED <<sensor_weights, readings>>
    /\ UNCHANGED NotFusion

WeightedFusion ==
    /\ fresult' = weighted_fusion(readings, sensor_weights)
    /\ UNCHANGED <<sensor_weights, readings>>
    /\ UNCHANGED NotFusion

\* Any f64 handed to set_sensor_weight: the values above, the infinities,
\* NaN.
F64Inputs == WeightInputs \cup {NegInf, PosInf, NaN}

FusionMethods == {"bayesian", "dempster_shafer", "weighted"}

\* The sensors field of the FusionResult: each of the three strategies
\* pushes, for every reading, a SensorContribution with the weight it read
\* from the table.
Contributions(batch, weights) ==
    [i \in DOMAIN batch |->
        [sensor_type |-> batch[i].sensor_type,
         weight |-> WeightOf(weights, batch[i].sensor_type),
         anomaly_score |-> calculate_anomaly_score(batch[i])]]

SetWeight(t, w) ==
    /\ sensor_weights' = set_sensor_weight(sensor_weights, t, w)
    /\ fresult' = NoResult
    /\ UNCHANGED readings
    /\ UNCHANGED NotFusion

\* A fusion call, by the contributions it returns.
Fuse(method) ==
    /\ fresult' = [method |-> method, sensors |-> Contributions(readings, sensor_weights)]
    /\ UNCHANGED <<sensor_weights, readings>>
    /\ UNCHANGED NotFusion

NextWeights ==
    \/ \E t \in SensorTypes, w \in F64Inputs : SetWeight(t, w)
    \/ \E method \in FusionMethods : Fuse(method)

NextFusion == SetSensorWeight \/ BayesianFusion \/ DempsterShaferFusion \/ WeightedFusion

----------------------------------------------------------------------------
(* SensorCorrelator: rolling buffers and check_correlation                 *)

\* SensorCorrelator::new
buffer_duration_ms == 10000

correlation_window_ms == 2000

\* Number of sensor identities that send readings.
NumSensors == 2

SensorIds == 1 .. NumSensors

\* Time passes in steps of TickMs, at most MaxTicks of them.
TickMs == 6000

MaxTicks == 2

MaxNow == MaxTicks * TickMs

\* reading.timestamp relative to the time of the add_reading call: stamped
\* TickMs before it, at it, or TickMs ahead of it (a sensor clock that runs
\* ahead).
TimestampOffsets == {0 - TickMs, 0, TickMs}

\* At most MaxReadings calls of add_reading.
MaxReadings == 2

\* The data of a reading, by what quick_anomaly_score sees: a constant (or
\* empty) window, a window whose largest deviation is 1 standard deviation
\* (the least a non-constant window can have), one with 6.
DataShapes == {"constant", "z1", "z6"}

\* quick_anomaly_score in thousandths: 0.0 when std_dev < 1e-10, else
\* 1 / (1 + exp(-0.5 * (z - 2))) rounded: 0.378 for z = 1, 0.881 for z = 6.
quick_anomaly_score(shape) ==
    CASE shape = "constant" -> 0
      [] shape = "z1" -> 378
      [] shape = "z6" -> 881

\* Scores are thousandths: reading.anomaly_score > 0.3
ScoreScale == 1000

AnomalousAbove == 300

\* self.min_correlation = 0.5
min_correlation == Half

EmptyBuffers == [s \in SensorIds |-> <<>>]

\* while buffer.front().map(|r| r.timestamp < cutoff).unwrap_or(false) { pop_front }
RECURSIVE PruneFront(_, _)
PruneFront(buffer, cutoff) ==
    IF buffer # <<>> /\ buffer[1].timestamp < cutoff
    THEN PruneFront(Tail(buffer), cutoff)
    ELSE buffer

\* buffer.push_back(entry)
PushBack(buffer, entry) == Append(buffer, entry)

\* add_reading: push the entry on the sensor's buffer, then prune that
\* buffer from the front against now - buffer_duration_ms.
add_reading(bufs, id, entry, t) ==
    [bufs EXCEPT ![id] = PruneFront(PushBack(bufs[id], entry), t - buffer_duration_ms)]

\* for reading in buffer.iter().rev() { if reading.timestamp < window_start
\* { break; } if reading.anomaly_score > 0.3 { push } }: from entry i down.
RECURSIVE ScanBack(_, _, _)
ScanBack(buffer, i, window_start) ==
    IF i = 0 THEN <<>>
    ELSE IF buffer[i].timestamp < window_start THEN <<>>
    ELSE (IF buffer[i].anomaly_score > AnomalousAbove
          THEN <<buffer[i]>> ELSE <<>>)
         \o ScanBack(buffer, i - 1, window_start)

\* anomalous_readings, as (sensor id, entry) pairs, sensor by sensor.
RECURSIVE AnomalousReadings(_, _, _)
AnomalousReadings(bufs, id, window_start) ==
    IF id > Len(bufs) THEN <<>>
    ELSE [k \in DOMAIN ScanBack(bufs[id], Len(bufs[id]), window_start) |->
             [sensor_id |-> id,
              reading |-> ScanBack(bufs[id], Len(bufs[id]), window_start)[k]]]
         \o AnomalousReadings(bufs, id + 1, window_start)

\* unique_sensors.len()
UniqueSensors(anomalous) == Cardinality({anomalous[k].sensor_id : k \in DOMAIN anomalous})

RECURSIVE SumScores(_)
SumScores(anomalous) ==
    IF anomalous = <<>> THEN 0
    ELSE anomalous[1].reading.anomaly_score + SumScores(Tail(anomalous))

\* (avg_anomaly * 0.6 + sensor_diversity * 0.4).min(1.0)
CorrelationConfidence(anomalous) ==
    LET avg_anomaly == Frac(SumScores(anomalous), ScoreScale * Len(anomalous))
        sensor_diversity == Frac(UniqueSensors(anomalous), 5)
        raw == FAdd(FMul(avg_anomaly, Frac(6, 10)), FMul(sensor_diversity, Frac(4, 10)))
    IN IF FLt(One, raw) THEN One ELSE raw

\* A lock that is granted whoever holds it: what MutexFree rules out.
MutexAlwaysGranted(m) == m >= 0

\* Counting the entries instead of the sensor identities: what
\* EnoughSensors rules out.
EnoughEntries(anomalous) == Len(anomalous) >= 2

\* if unique_sensors.len() < 2 { return None; }
EnoughSensors(anomalous) == UniqueSensors(anomalous) >= 2

\* Reporting the event whatever its confidence: what Reportable rules out.
ReportableAlways(confidence) == FLe(Zero, confidence)

\* if confidence > self.min_correlation { Some(..) } else { None }
Reportable(confidence) == FLt(min_correlation, confidence)

MinTimestamp(anomalous) ==
    CHOOSE t \in {anomalous[k].reading.timestamp : k \in DOMAIN anomalous} :
        \A k \in DOMAIN anomalous : t <= anomalous[k].reading.timestamp

MaxTimestamp(anomalous) ==
    CHOOSE t \in {anomalous[k].reading.timestamp : k \in DOMAIN anomalous} :
        \A k \in DOMAIN anomalous : t >= anomalous[k].reading.timestamp

NoEvent == [none |-> TRUE]

CorrelationEvent(anomalous, t) ==
    [timestamp |-> t,
     sensors |-> Len(anomalous),
     confidence |-> CorrelationConfidence(anomalous),
     lag_ms |-> MaxTimestamp(anomalous) - MinTimestamp(anomalous)]

check_correlation(bufs, t) ==
    LET anomalous == AnomalousReadings(bufs, 1, t - correlation_window_ms)
    IN IF ~EnoughSensors(anomalous) THEN NoEvent
       ELSE IF Reportable(CorrelationConfidence(anomalous))
            THEN CorrelationEvent(anomalous, t)
            ELSE NoEvent

InitCorr ==
    /\ now = 0
    /\ buffers = EmptyBuffers
    /\ arrivals = 0
    /\ corr_event = NoEvent
    /\ lastop = "new"

\* Time passes between two calls.
Tick ==
    /\ now + TickMs <= MaxNow
    /\ now' = now + TickMs
    /\ lastop' = "tick"
    /\ corr_event' = NoEvent
    /\ UNCHANGED <<buffers, arrivals>>
    /\ UNCHANGED NotCorr

AddReading ==
    /\ arrivals < MaxReadings
    /\ \E id \in SensorIds, off \in TimestampOffsets, shape \in DataShapes :
           buffers' = add_reading(buffers, id,
                                  [seq |-> arrivals + 1,
                                   timestamp |-> now + off,
                                   anomaly_score |-> quick_anomaly_score(shape)],
                                  now)
    /\ arrivals' = arrivals + 1
    /\ lastop' = "add"
    /\ corr_event' = NoEvent
    /\ UNCHANGED now
    /\ UNCHANGED NotCorr

CheckCorrelation ==
    /\ corr_event' = check_correlation(buffers, now)
    /\ lastop' = "check"
    /\ UNCHANGED <<now, buffers, arrivals>>
    /\ UNCHANGED NotCorr

NextCorr == Tick \/ AddReading \/ CheckCorrelation


----------------------------------------------------------------------------
(* DetectionEngine::process_reading: tasks sharing the correlator through  *)
(* its parking_lot::Mutex                                                  *)

\* Two tasks inside process_reading at once.
TaskIds == {1, 2}

\* The readings the tasks add all carry an anomalous window: the order of
\* the entries and the lock do not depend on the score.
TaskShapes == {"z6"}

\* self.correlator.lock(): the lock is granted only when nobody holds it.
MutexFree(m) == m = 0

NoContext == [none |-> TRUE]

\* The steps of add_reading that touch the buffer, between lock and unlock.
InAddReading == {"push", "cutoff", "prune"}

InCritical == InAddReading \cup {"check"}

\* buffer.front().map(|r| r.timestamp < cutoff).unwrap_or(false)
FrontIsOld(buffer, cutoff) == buffer # <<>> /\ buffer[1].timestamp < cutoff

InitTasks ==
    /\ InitCorr
    /\ mutex = 0
    /\ tpc = [t \in TaskIds |-> "idle"]
    /\ tctx = [t \in TaskIds |-> NoContext]

\* self.correlator.lock().add_reading(reading.clone()): the lock is taken and
\* the entry is built; the call is the next one in arrival order.
LockAdd(t) ==
    /\ tpc[t] = "idle"
    /\ arrivals < MaxReadings
    /\ MutexFree(mutex)
    /\ mutex' = t
    /\ \E id \in SensorIds, off \in TimestampOffsets, shape \in TaskShapes :
           tctx' = [tctx EXCEPT ![t] =
                       [sensor_id |-> id,
                        entry |-> [seq |-> arrivals + 1,
                                   timestamp |-> now + off,
                                   anomaly_score |-> quick_anomaly_score(shape)],
                        before |-> buffers,
                        cutoff |-> 0]]
    /\ arrivals' = arrivals + 1
    /\ tpc' = [tpc EXCEPT ![t] = "push"]
    /\ UNCHANGED <<now, buffers, corr_event, lastop>>
    /\ UNCHANGED NotTasks

\* buffer.push_back(entry)
Push(t) ==
    /\ tpc[t] = "push"
    /\ buffers' = [buffers EXCEPT ![tctx[t].sensor_id] = PushBack(@, tctx[t].entry)]
    /\ tpc' = [tpc EXCEPT ![t] = "cutoff"]
    /\ UNCHANGED <<now, arrivals, corr_event, lastop, mutex, tctx>>
    /\ UNCHANGED NotTasks

\* let cutoff = Utc::now() - Duration::milliseconds(self.buffer_duration_ms)
ReadCutoff(t) ==
    /\ tpc[t] = "cutoff"
    /\ tctx' = [tctx EXCEPT ![t].cutoff = now - buffer_duration_ms]
    /\ tpc' = [tpc EXCEPT ![t] = "prune"]
    /\ UNCHANGED <<now, buffers, arrivals, corr_event, lastop, mutex>>
    /\ UNCHANGED NotTasks

\* One turn of the while loop: buffer.pop_front()
PopFront(t) ==
    /\ tpc[t] = "prune"
    /\ FrontIsOld(buffers[tctx[t].sensor_id], tctx[t].cutoff)
    /\ buffers' = [buffers EXCEPT ![tctx[t].sensor_id] = Tail(@)]
    /\ UNCHANGED <<now, arrivals, corr_event, lastop, mutex, tpc, tctx>>
    /\ UNCHANGED NotTasks

\* The loop ends, add_reading returns and the guard is dropped.
UnlockAdd(t) ==
    /\ tpc[t] = "prune"
    /\ ~FrontIsOld(buffers[tctx[t].sensor_id], tctx[t].cutoff)
    /\ mutex' = 0
    /\ tpc' = [tpc EXCEPT ![t] = "added"]
    /\ UNCHANGED <<now, buffers, arrivals, corr_event, lastop, tctx>>
    /\ UNCHANGED NotTasks

\* self.correlator.lock().check_correlation(): the second lock
LockCheck(t) ==
    /\ tpc[t] = "added"
    /\ MutexFree(mutex)
    /\ mutex' = t
    /\ tpc' = [tpc EXCEPT ![t] = "check"]
    /\ UNCHANGED <<now, buffers, arrivals, corr_event, lastop, tctx>>
    /\ UNCHANGED NotTasks

\* check_correlation runs and the guard is dropped; process_reading returns.
CheckUnlock(t) ==
    /\ tpc[t] = "check"
    /\ corr_event' = check_correlation(buffers, now)
    /\ mutex' = 0
    /\ tpc' = [tpc EXCEPT ![t] = "idle"]
    /\ tctx' = [tctx EXCEPT ![t] = NoContext]
    /\ UNCHANGED <<now, buffers, arrivals, lastop>>
    /\ UNCHANGED NotTasks

\* Time passes, also while a task holds the lock.
TaskTick ==
    /\ now + TickMs <= MaxNow
    /\ now' = now + TickMs
    /\ UNCHANGED <<buffers, arrivals, corr_event, lastop, mutex, tpc, tctx>>
    /\ UNCHANGED NotTasks

NextTasks ==
    \/ TaskTick
    \/ \E t \in TaskIds :
           \/ LockAdd(t)
           \/ Push(t)
           \/ ReadCutoff(t)
           \/ PopFront(t)
           \/ UnlockAdd(t)
           \/ LockCheck(t)
           \/ CheckUnlock(t)

IdleTasks ==
    /\ mutex = 0
    /\ tpc = <<>>
    /\ tctx = <<>>

----------------------------------------------------------------------------
(* EventBus::reading_tx, a tokio broadcast channel, and the run loops of   *)
(* AnalysisEngine and DetectionEngine that subscribe to it                 *)

\* capacity of EventBus::new: the channel keeps the last Capacity readings.
Capacity == 2

\* At most MaxPublished calls of publish_reading.
MaxPublished == 4

Subscribers == {"analysis", "detection"}

\* Subscribers holding a Receiver: run has subscribed and has not returned.
Receivers(rs) == {t \in Subscribers : rs[t] \in {"receiving", "stalled"}}

\* The first channel position still stored: older ones were overwritten.
OldestKept(ch) == Max(0, Len(ch) - Capacity)

InitBus ==
    /\ channel = <<>>
    /\ sent = 0
    /\ cursor = [t \in Subscribers |-> 0]
    /\ rstate = [t \in Subscribers |-> "unsubscribed"]
    /\ processed = [t \in Subscribers |-> <<>>]
    /\ due = [t \in Subscribers |-> <<>>]
    /\ shutdown = FALSE

\* let mut reading_rx = self.event_bus.subscribe_readings(): the receiver
\* starts at the channel's tail.
Subscribe(t) ==
    /\ rstate[t] = "unsubscribed"
    /\ rstate' = [rstate EXCEPT ![t] = "receiving"]
    /\ cursor' = [cursor EXCEPT ![t] = Len(channel)]
    /\ UNCHANGED <<channel, sent, processed, due, shutdown>>
    /\ UNCHANGED NotBus

\* let _ = self.reading_tx.send(reading.clone()): stored when there is a
\* receiver, dropped (Err ignored) when there is none.
PublishReading ==
    /\ sent < MaxPublished
    /\ sent' = sent + 1
    /\ channel' = IF Receivers(rstate) # {} THEN Append(channel, sent + 1) ELSE channel
    /\ due' = [t \in Subscribers |->
                  IF t \in Receivers(rstate) THEN Append(due[t], sent + 1) ELSE due[t]]
    /\ UNCHANGED <<cursor, rstate, processed, shutdown>>
    /\ UNCHANGED NotBus

\* Ok(reading) = reading_rx.recv() => process_reading(&reading)
RecvOk(t) ==
    /\ rstate[t] = "receiving"
    /\ cursor[t] >= OldestKept(channel)
    /\ cursor[t] < Len(channel)
    /\ processed' = [processed EXCEPT ![t] = Append(@, channel[cursor[t] + 1])]
    /\ cursor' = [cursor EXCEPT ![t] = @ + 1]
    /\ UNCHANGED <<channel, sent, rstate, due, shutdown>>
    /\ UNCHANGED NotBus

\* recv() returns Err(Lagged(n)) and moves the receiver to the oldest stored
\* reading; the pattern Ok(reading) does not match, select! disables the
\* branch and keeps waiting on shutdown.recv() alone.
RecvLagged(t) ==
    /\ rstate[t] = "receiving"
    /\ cursor[t] < OldestKept(channel)
    /\ cursor' = [cursor EXCEPT ![t] = OldestKept(channel)]
    /\ rstate' = [rstate EXCEPT ![t] = "stalled"]
    /\ UNCHANGED <<channel, sent, processed, due, shutdown>>
    /\ UNCHANGED NotBus

\* The shutdown signal is sent.
Shutdown ==
    /\ ~shutdown
    /\ shutdown' = TRUE
    /\ UNCHANGED <<channel, sent, cursor, rstate, processed, due>>
    /\ UNCHANGED NotBus

\* _ = shutdown.recv() => break: run returns and drops its receiver.
Stop(t) ==
    /\ shutdown
    /\ rstate[t] \in {"receiving", "stalled"}
    /\ rstate' = [rstate EXCEPT ![t] = "stopped"]
    /\ UNCHANGED <<channel, sent, cursor, processed, due, shutdown>>
    /\ UNCHANGED NotBus

NextBus ==
    \/ PublishReading
    \/ Shutdown
    \/ \E t \in Subscribers :
           \/ Subscribe(t)
           \/ RecvOk(t)
           \/ RecvLagged(t)
           \/ Stop(t)

IdleBus ==
    /\ channel = <<>>
    /\ sent = 0
    /\ cursor = <<>>
    /\ rstate = <<>>
    /\ processed = <<>>
    /\ due = <<>>
    /\ shutdown = FALSE

----------------------------------------------------------------------------
(* Calls of pure functions: the arguments are drawn at the start, the call *)
(* stores what the function returns                                        *)

NoReturn == [none |-> TRUE]

NoCall == [fn |-> "none"]

IdlePure == call = NoCall /\ result = NoReturn

\* The call returns `value`.
Returns(fn, value) ==
    /\ call.fn = fn
    /\ result = NoReturn
    /\ result' = value
    /\ UNCHANGED call
    /\ UNCHANGED NotPure

----------------------------------------------------------------------------
(* StatisticalAnalyzer::percentile (analysis/statistics.rs)                *)

\* Samples are the integers 0..MaxValue; windows have up to MaxLen samples.
MaxValue == 2

MaxLen == 3

Values == 0 .. MaxValue

Windows == UNION {[1 .. n -> Values] : n \in 0 .. MaxLen}

IsSorted(w) == \A i, j \in DOMAIN w : i < j => w[i] <= w[j]

Percents == {0, 25, 50, 75, 100}

\* A rank that ignores p: what PercentileRank rules out.
PercentileRankOfMedian(p, len) == 50 * (len - 1)

\* k = p / 100.0 * (sorted.len() - 1) as f64, in hundredths.
PercentileRank(p, len) == p * (len - 1)

percentile(sorted, p) ==
    IF sorted = <<>> THEN Zero
    ELSE LET k == PercentileRank(p, Len(sorted))
             f == k \div 100
             c == IF k % 100 = 0 THEN f ELSE f + 1
         IN IF f = c \/ c >= Len(sorted)
            THEN Frac(sorted[Min(f, Len(sorted) - 1) + 1], 1)
            ELSE Frac(sorted[f + 1] * 100 + (sorted[c + 1] - sorted[f + 1]) * (k - 100 * f), 100)

InitPercentile ==
    /\ call \in {[fn |-> "percentile", sorted |-> w, p |-> p] :
                    w \in {v \in Windows : IsSorted(v)}, p \in Percents}
    /\ result = NoReturn

Percentile == Returns("percentile", percentile(call.sorted, call.p))

NextPercentile == Percentile

----------------------------------------------------------------------------
(* StatisticalAnalyzer's hypothesis tests on small samples                 *)
(* (analysis/statistics.rs).  The p-value of a sample large enough to be   *)
(* tested comes from a transcendental function and is not computed here:   *)
(* the result then only says that the statistic was computed.              *)

\* TTestResult / UTestResult { .., p_value: 1.0, significant: false }
NeutralResult == [p_value |-> One, significant |-> FALSE]

Computed == [computed |-> TRUE]

\* if n1 < 2.0 || n2 < 2.0 { return .. p_value: 1.0, significant: false }
welch_t_test(sample1, sample2) ==
    IF Len(sample1) < 2 \/ Len(sample2) < 2 THEN NeutralResult ELSE Computed

\* if n1 < 3 || n2 < 3 { return .. p_value: 1.0, significant: false }
mann_whitney_test(sample1, sample2) ==
    IF Len(sample1) < 3 \/ Len(sample2) < 3 THEN NeutralResult ELSE Computed

\* kolmogorov_p_value(z) by z * z: 1.0 below z = 0.27, 0.0 above z = 3.5,
\* else 2 * sum of (-1)^(k-1) * exp(-2 k^2 z^2), in thousandths, for the two
\* values a one-sample window produces: z = 1/2 (0.964) and z = 1 (0.270).
kolmogorov_p_value(zsq) ==
    IF FLt(zsq, Frac(729, 10000)) THEN One
    ELSE IF FLt(Frac(1225, 100), zsq) THEN Zero
    ELSE IF zsq = Frac(1, 4) THEN Frac(964, 1000)
    ELSE Frac(270, 1000)

FAbsDiff(a, b) == IF FLe(b, a) THEN FSub(a, b) ELSE FSub(b, a)

FMax(a, b) == IF FLe(a, b) THEN b ELSE a

\* ks_test on a sample of at most one value x, with theoretical_cdf(x) =
\* cdf_x: empty => neutral; else d_max = max(|1/1 - cdf_x|, |0/1 - cdf_x|),
\* p_value = kolmogorov_p_value(d_max * sqrt(1)), significant = p < 0.05.
ks_test(sample, cdf_x) ==
    IF sample = <<>> THEN NeutralResult
    ELSE LET d_max == FMax(FAbsDiff(One, cdf_x), FAbsDiff(Zero, cdf_x))
             p_value == kolmogorov_p_value(FMul(d_max, d_max))
         IN [p_value |-> p_value, significant |-> FLt(p_value, Frac(5, 100))]

\* theoretical_cdf(x) of the one sample: a probability.
CdfValues == {Zero, Half, One}

InitTests ==
    /\ call \in {[fn |-> f, sample1 |-> a, sample2 |-> b] :
                    f \in {"welch_t_test", "mann_whitney_test"},
                    a \in {w \in Windows : IsSorted(w)}, b \in {w \in Windows : IsSorted(w)}}
              \cup {[fn |-> "ks_test", sample |-> a, cdf_x |-> c] :
                       a \in {w \in Windows : Len(w) <= 1}, c \in CdfValues}
    /\ result = NoReturn

WelchTTest == Returns("welch_t_test", welch_t_test(call.sample1, call.sample2))

MannWhitneyTest == Returns("mann_whitney_test", mann_whitney_test(call.sample1, call.sample2))

KsTest == Returns("ks_test", ks_test(call.sample, call.cdf_x))

NextTests == WelchTTest \/ MannWhitneyTest \/ KsTest

----------------------------------------------------------------------------
(* AnomalyClassifier::classify (detection/classification.rs)               *)

Categories == {"Natural", "Electronic", "Human", "Biological", "Unexplained"}

\* The detection kinds by the indicator feature extract_features sets for
\* them: is_thermal, is_emf, is_acoustic, is_seismic, or none of the four.
KindClasses == {"thermal", "emf", "acoustic", "seismic", "other"}

\* detection.sensors.len()
SensorCounts == 0 .. 3

\* correlation_score and entropy_deviation: f64 fields without a range.
FeatureValues == {Zero, Half, One, Frac(5, 1)}

\* confidence, in [0, 1]
ConfidenceValues == {Zero, Half, One}

Indicator(b) == IF b THEN One ELSE Zero

\* x.min(1.0)
FMin1(x) == IF FLt(One, x) THEN One ELSE x

extract_features(d) ==
    [is_thermal |-> Indicator(d.kind = "thermal"),
     is_emf |-> Indicator(d.kind = "emf"),
     is_acoustic |-> Indicator(d.kind = "acoustic"),
     is_seismic |-> Indicator(d.kind = "seismic"),
     sensor_count |-> d.sensors,
     correlation |-> d.correlation_score,
     entropy_deviation |-> d.entropy_deviation,
     confidence |-> d.confidence,
     multi_sensor |-> Indicator(d.sensors > 2)]

\* The five scores before the normalisation.
RawScores(f) ==
    [c \in Categories |->
        CASE c = "Natural" ->
               FMin1(FAdd(FAdd(FMul(f.is_seismic, Frac(3, 10)),
                               FMul(FSub(One, f.correlation), Frac(3, 10))),
                          FMul(FSub(One, f.entropy_deviation), Frac(4, 10))))
          [] c = "Electronic" ->
               FMin1(FAdd(FMul(f.is_emf, Frac(6, 10)),
                          FMul(IF f.sensor_count <= 1 THEN Half ELSE Zero, Frac(4, 10))))
          [] c = "Human" ->
               FMin1(FMul(FMul(FAdd(FAdd(f.is_thermal, f.is_acoustic), f.is_seismic),
                               Frac(1, 3)), Frac(7, 10)))
          [] c = "Biological" ->
               FMin1(FAdd(FAdd(IF FLt(Half, f.is_acoustic) THEN Frac(3, 10) ELSE Zero,
                               FMul(f.is_seismic, Frac(3, 10))),
                          FMul(FSub(One, f.is_thermal), Frac(2, 10))))
          [] c = "Unexplained" ->
               FMin1(FMul(FAdd(FAdd(FMul(f.correlation, Frac(3, 10)),
                                    FMul(f.entropy_deviation, Frac(3, 10))),
                               FAdd(FMul(f.multi_sensor, Frac(2, 10)),
                                    FMul(f.confidence, Frac(2, 10)))),
                          Frac(12, 10)))]

RECURSIVE FSum(_, _)
FSum(scores, cats) ==
    IF cats = {} THEN Zero
    ELSE LET c == CHOOSE x \in cats : TRUE
         IN FAdd(scores[c], FSum(scores, cats \ {c}))

\* x / y for y > 0
FDiv(x, y) == Frac(x.n * y.d, x.d * y.n)

\* let total = scores.values().sum(); if total > 0.0 { *v /= total }
score_categories(f) ==
    LET raw == RawScores(f)
        total == FSum(raw, Categories)
    IN IF FLt(Zero, total) THEN [c \in Categories |-> FDiv(raw[c], total)] ELSE raw

\* scores.iter().max_by(..): a category whose score no other exceeds; which
\* one of several equal ones depends on the HashMap's iteration order.
ArgMax(scores) == {c \in Categories : \A o \in Categories : FLe(scores[o], scores[c])}

InitClassify ==
    /\ call \in {[fn |-> "classify",
                   detection |-> [kind |-> k, sensors |-> n, correlation_score |-> r,
                                  entropy_deviation |-> e, confidence |-> q]] :
                    k \in KindClasses, n \in SensorCounts, r \in FeatureValues,
                    e \in FeatureValues, q \in ConfidenceValues}
    /\ result = NoReturn

Classify ==
    LET scores == score_categories(extract_features(call.detection))
    IN \E best \in ArgMax(scores) :
           Returns("classify",
                   [category |-> best, confidence |-> scores[best], all_scores |-> scores])

NextClassify == Classify

----------------------------------------------------------------------------
(* EntropyAnalyzer (analysis/entropy.rs): the six entropies of a window of *)
(* equal samples, the empty window included                                *)

\* Windows of equal samples have up to MaxRun samples.
MaxRun == 5

ConstantWindows == {[i \in 1 .. n |-> v] : n \in 0 .. MaxRun, v \in Values}

\* p.log2() and p.ln() of the two arguments a window of equal samples
\* produces: log(1) = 0 and log(0) = -inf.
Log(p) == CASE p = One -> Zero [] p = Zero -> NegInf

\* c * x for a finite c
Scale(c, x) ==
    IF IsFinite(x) THEN FMul(c, x)
    ELSE IF x = NaN \/ c = Zero THEN NaN
    ELSE IF (c.n > 0) = (x = PosInf) THEN PosInf ELSE NegInf

WindowMin(data) == CHOOSE x \in Range(data) : \A y \in Range(data) : x <= y

WindowMax(data) == CHOOSE x \in Range(data) : \A y \in Range(data) : y <= x

\* let range = (max - min).max(1e-10);
\* let bin = (((x - min) / range) * (bins - 1) as f64) as usize;
HistogramBin(x, lo, hi) == IF hi = lo THEN 0 ELSE ((x - lo) * 255) \div (hi - lo)

\* The keys of the histogram: no key for the empty window.
HistogramBins(data) ==
    {HistogramBin(data[i], WindowMin(data), WindowMax(data)) : i \in DOMAIN data}

\* count as f64 / n
Probability(data, bin) ==
    Frac(Cardinality({i \in DOMAIN data :
                        HistogramBin(data[i], WindowMin(data), WindowMax(data)) = bin}),
         Len(data))

\* if p > 0.0 { -p * p.log2() } else { 0.0 }
EntropyTerm(p) == IF FLt(Zero, p) THEN Scale(FSub(Zero, p), Log(p)) ELSE Zero

shannon_entropy(data) ==
    FSum([b \in HistogramBins(data) |-> EntropyTerm(Probability(data, b))],
         HistogramBins(data))

\* The sum of p^2 over the bins: 0 for the empty window.
SumOfSquares(data) ==
    FSum([b \in HistogramBins(data) |->
              FMul(Probability(data, b), Probability(data, b))],
         HistogramBins(data))

\* (1.0 / (1.0 - alpha)) * sum_p_alpha.log2(), alpha = 2
renyi_entropy(data, alpha) ==
    Scale(Frac(-1, alpha - 1), Log(SumOfSquares(data)))

\* (1.0 - sum_p_q) / (q - 1.0), q = 2
tsallis_entropy(data, q) == FDiv(FSub(One, SumOfSquares(data)), Frac(q - 1, 1))

\* EntropyAnalyzer::std_dev squared: 0 under two samples, else the sum of
\* squared deviations over n - 1.
EntropyVariance(data) ==
    LET n == Len(data)
        sq == [i \in DOMAIN data |-> data[i] * data[i]]
    IN IF n < 2 THEN Zero
       ELSE Frac(n * SumSeq(sq) - SumSeq(data) * SumSeq(data), n * (n - 1))

\* (a - b).abs() > r with r = 0.2 * std_dev
BeyondTolerance(data, a, b) ==
    FLt(FMul(Frac(1, 25), EntropyVariance(data)), Frac((a - b) * (a - b), 1))

TemplatesMatch(data, i, j, m) ==
    \A k \in 0 .. m - 1 : ~BeyondTolerance(data, data[i + k + 1], data[j + k + 1])

\* The pairs i < j of 0..(n - m) whose m-length templates match.
MatchingPairs(data, m) ==
    LET n == Len(data)
    IN {p \in (0 .. n - m - 1) \X (0 .. n - m - 1) :
            p[1] < p[2] /\ TemplatesMatch(data, p[1], p[2], m)}

sample_entropy(data, m) ==
    LET n == Len(data)
        count_m == Cardinality(MatchingPairs(data, m))
        count_m1 == Cardinality({p \in MatchingPairs(data, m) :
                                    ~BeyondTolerance(data, data[p[1] + m + 1],
                                                     data[p[2] + m + 1])})
    IN IF n < m + 2 THEN Zero
       ELSE IF count_m = 0 \/ count_m1 = 0 THEN Zero
       ELSE Scale(Frac(-1, 1), Log(Frac(count_m1, count_m)))

\* c[i]: the share of the templates within r of template i, itself included.
PhiShare(data, m, i) ==
    LET last == Len(data) - m
    IN Frac(Cardinality({j \in 0 .. last : TemplatesMatch(data, i, j, m)}), last + 1)

phi(data, m) ==
    LET last == Len(data) - m
        logs == [i \in 0 .. last |->
                    IF FLt(Zero, PhiShare(data, m, i)) THEN Log(PhiShare(data, m, i))
                    ELSE Zero]
    IN IF Len(data) < m THEN Zero
       ELSE FDiv(FSum(logs, 0 .. last), Frac(last + 1, 1))

approximate_entropy(data, m) == FSub(phi(data, m), phi(data, m + 1))

\* indices.sort_by(..) of three equal samples keeps 0, 1, 2: the windows of
\* equal samples have the one ordinal pattern, of probability 1.
permutation_entropy(data, m) ==
    IF Len(data) < m THEN Zero
    ELSE FDiv(EntropyTerm(One), Frac(17918, 10000))

InitEntropy ==
    /\ call \in {[fn |-> f, data |-> w] :
                    f \in {"shannon_entropy", "renyi_entropy", "tsallis_entropy",
                           "sample_entropy", "approximate_entropy",
                           "permutation_entropy"},
                    w \in ConstantWindows}
    /\ result = NoReturn

ShannonEntropy == Returns("shannon_entropy", shannon_entropy(call.data))

RenyiEntropy == Returns("renyi_entropy", renyi_entropy(call.data, 2))

TsallisEntropy == Returns("tsallis_entropy", tsallis_entropy(call.data, 2))

SampleEntropy == Returns("sample_entropy", sample_entropy(call.data, 2))

ApproximateEntropy == Returns("approximate_entropy", approximate_entropy(call.data, 2))

PermutationEntropy == Returns("permutation_entropy", permutation_entropy(call.data, 3))

NextEntropy ==
    \/ ShannonEntropy
    \/ RenyiEntropy
    \/ TsallisEntropy
    \/ SampleEntropy
    \/ ApproximateEntropy
    \/ PermutationEntropy
----------------------------------------------------------------------------
(* SignalProcessor::extract_features (analysis/signal.rs) and              *)
(* EntropyAnalyzer::analyze (analysis/entropy.rs) on degenerate windows    *)

\* a / b of two finite values with b >= 0, as f64 division gives it.
Quotient(a, b) ==
    IF b # Zero THEN FDiv(a, b)
    ELSE IF a = Zero THEN NaN
    ELSE IF a.n > 0 THEN PosInf ELSE NegInf

\* x.sqrt(): exact for 0, kept as a term [sqrt |-> x] for another finite x.
Sqrt(x) ==
    IF x = NaN THEN NaN
    ELSE IF x = PosInf THEN PosInf
    ELSE IF x = Zero THEN Zero
    ELSE [sqrt |-> x]

WindowMean(data) == Frac(SumSeq(data), Len(data))

\* The sum of (x - mean)^2 over the window, times n: n * sum x^2 - (sum x)^2.
SquaredDeviations(data) ==
    LET sq == [i \in DOMAIN data |-> data[i] * data[i]]
    IN Frac(Len(data) * SumSeq(sq) - SumSeq(data) * SumSeq(data), Len(data))

MeanSquare(data) ==
    Frac(SumSeq([i \in DOMAIN data |-> data[i] * data[i]]), Len(data))

\* (mean, std_dev, rms, peak_to_peak, crest_factor, zero_crossings); the
\* variance divides by n - 1 with no guard.
time_domain_features(data) ==
    LET n == Len(data)
        mean == WindowMean(data)
        variance == Quotient(SquaredDeviations(data), Frac(n - 1, 1))
        max == WindowMax(data)
        min == WindowMin(data)
        peak == IF max >= -min THEN max ELSE -min
    IN [mean |-> mean,
        std_dev |-> Sqrt(variance),
        rms |-> Sqrt(MeanSquare(data)),
        peak_to_peak |-> Frac(max - min, 1),
        crest_factor |-> IF MeanSquare(data) # Zero
                         THEN Sqrt(FDiv(Frac(peak * peak, 1), MeanSquare(data)))
                         ELSE Zero,
        zero_crossings |->
            Cardinality({i \in 1 .. n - 1 :
                            FLt(FMul(FSub(Frac(data[i], 1), mean),
                                     FSub(Frac(data[i + 1], 1), mean)), Zero)})]

\* SignalFeatures::default(), and every field that frequency_domain_features
\* (under 4 samples) and temporal_features (under 10 samples) return as 0.
DefaultFeatures ==
    [mean |-> Zero, std_dev |-> Zero, rms |-> Zero, peak_to_peak |-> Zero,
     crest_factor |-> Zero, zero_crossings |-> 0, dominant_frequency |-> Zero,
     spectral_centroid |-> Zero, spectral_bandwidth |-> Zero, spectral_rolloff |-> Zero,
     spectral_flatness |-> Zero, attack_time |-> Zero, decay_time |-> Zero]

signal_extract_features(data, sample_rate) ==
    IF data = <<>> THEN DefaultFeatures
    ELSE LET time == time_domain_features(data)
         IN [DefaultFeatures EXCEPT !.mean = time.mean, !.std_dev = time.std_dev,
                                    !.rms = time.rms, !.peak_to_peak = time.peak_to_peak,
                                    !.crest_factor = time.crest_factor,
                                    !.zero_crossings = time.zero_crossings]

\* data.chunks(scale) averaged: of equal samples, ceil(n / scale) equal samples.
coarse_grain(data, scale) ==
    [i \in 1 .. (Len(data) + scale - 1) \div scale |-> data[1]]

multiscale_entropy(data, m, scales) ==
    [scale \in 1 .. scales |-> sample_entropy(coarse_grain(data, scale), m)]

\* Four equal samples v have the spectrum lines (4v)^2 and 0: the power is
\* under 1e-10 for v = 0, and else the normalised density is (1, 0) and the
\* entropy is divided by log2(4 / 2) = 1.
spectral_entropy(data) ==
    IF Len(data) < 4 THEN Zero
    ELSE IF data[1] = 0 THEN Zero
    ELSE FAdd(EntropyTerm(One), EntropyTerm(Zero))

\* Only the guard is reached: if data.len() < 8 { return 0.0; }
wavelet_entropy(data) == CASE Len(data) < 8 -> Zero

\* The while loop of lempel_ziv_complexity over the binarised window.
RECURSIVE LzLoop(_, _, _, _)
LzLoop(binary, i, k, c) ==
    IF i + k > Len(binary) THEN c
    ELSE IF \E j \in 0 .. i + k - 2 :
                /\ j + k <= i + k - 1
                /\ SubSeq(binary, j + 1, j + k) = SubSeq(binary, i + 1, i + k)
         THEN LzLoop(binary, i, k + 1, c)
         ELSE LzLoop(binary, i + k, 1, c + 1)

\* (n as f64).log2() in thousandths.
Log2Of(n) == Frac(CASE n = 1 -> 0 [] n = 2 -> 1000 [] n = 3 -> 1585 [] n = 4 -> 2000, 1000)

\* The median of a window of equal samples is that sample.
lempel_ziv_complexity(data) ==
    LET n == Len(data)
        binary == [i \in DOMAIN data |-> IF data[i] >= data[1] THEN 1 ELSE 0]
        c == LzLoop(binary, 0, 1, 1)
        h == Quotient(Frac(n, 1), Log2Of(n))
    IN IF h = PosInf THEN Zero ELSE FDiv(Frac(c, 1), h)

\* lz * n.log2() / n
estimate_kolmogorov(data) ==
    FDiv(FMul(lempel_ziv_complexity(data), Log2Of(Len(data))), Frac(Len(data), 1))

\* Only the guard is reached: if data.len() < 32 { return 0.5; }
hurst_exponent(data) == CASE Len(data) < 32 -> Half

\* baseline_entropy is None: the baseline is the window's own shannon entropy.
compute_anomaly_score(shannon, sample, spectral) ==
    LET baseline == shannon
        shannon_dev == DivGuarded(FAbsDiff(shannon, baseline), baseline)
        regularity_score == IF FLt(sample, Frac(1, 10)) THEN Frac(2, 1) ELSE Zero
        spectral_score == IF FLt(spectral, Frac(2, 10)) \/ FLt(Frac(95, 100), spectral)
                          THEN Frac(15, 10) ELSE Zero
    IN FAdd(shannon_dev, FAdd(regularity_score, spectral_score))

\* EntropyResult::default()
DefaultEntropyResult ==
    [shannon |-> Zero, renyi |-> Zero, tsallis |-> Zero, sample |-> Zero,
     approximate |-> Zero, permutation |-> Zero, multiscale |-> <<>>, spectral |-> Zero,
     wavelet |-> Zero, lz_complexity |-> Zero, kolmogorov_estimate |-> Zero,
     hurst_exponent |-> Half, kurtosis |-> Zero, skewness |-> Zero, anomaly_score |-> Zero]

\* compute_moments returns (0, 0) under 4 samples and for std < 1e-10, which
\* is every window of equal samples.
analyze(data) ==
    IF data = <<>> THEN DefaultEntropyResult
    ELSE [shannon |-> shannon_entropy(data),
          renyi |-> renyi_entropy(data, 2),
          tsallis |-> tsallis_entropy(data, 2),
          sample |-> sample_entropy(data, 2),
          approximate |-> approximate_entropy(data, 2),
          permutation |-> permutation_entropy(data, 3),
          multiscale |-> multiscale_entropy(data, 2, 10),
          spectral |-> spectral_entropy(data),
          wavelet |-> wavelet_entropy(data),
          lz_complexity |-> lempel_ziv_complexity(data),
          kolmogorov_estimate |-> estimate_kolmogorov(data),
          hurst_exponent |-> hurst_exponent(data),
          kurtosis |-> Zero,
          skewness |-> Zero,
          anomaly_score |-> compute_anomaly_score(shannon_entropy(data),
                                                  sample_entropy(data, 2),
                                                  spectral_entropy(data))]

SampleRates == {100, 1000}

\* Under 4 samples the spectrum is not computed: every window of up to 3
\* samples, the empty one included.
ShortWindows == {w \in Windows : Len(w) <= 3}

\* Windows of up to 4 equal samples, the empty one included.
FlatWindows == {w \in ConstantWindows : Len(w) <= 4}

InitDegenerate ==
    /\ call \in {[fn |-> "extract_features", data |-> w, sample_rate |-> r] :
                    w \in ShortWindows, r \in SampleRates}
                \cup {[fn |-> "analyze", data |-> w] : w \in FlatWindows}
    /\ result = NoReturn

ExtractFeatures ==
    Returns("extract_features", signal_extract_features(call.data, call.sample_rate))

Analyze == Returns("analyze", analyze(call.data))

NextDegenerate == ExtractFeatures \/ Analyze

\* The f64 fields of a returned record.
NumericFields(r) ==
    {r[f] : f \in DOMAIN r \ {"multiscale", "zero_crossings"}}
    \cup (IF "multiscale" \in DOMAIN r THEN Range(r.multiscale) ELSE {})
----------------------------------------------------------------------------
(* DetectionEngine (detection/mod.rs): process_reading, create_detection,  *)
(* record_detection                                                        *)

NoClassification == "None"

NoPasses == [fusion |-> 0, classifier |-> 0]

\* // Keep only last 1000
RecentLimit == 1000

IdleDetect ==
    /\ recent_detections = <<>>
    /\ detection_count = 0
    /\ published = <<>>
    /\ passes = NoPasses

\* match confidence { c if c >= 0.9 => Critical, c if c >= 0.7 => High,
\* c if c >= 0.4 => Medium, _ => Low }
SeverityOf(confidence) ==
    IF FLe(Frac(9, 10), confidence) THEN "Critical"
    ELSE IF FLe(Frac(7, 10), confidence) THEN "High"
    ELSE IF FLe(Frac(4, 10), confidence) THEN "Medium"
    ELSE "Low"

\* The Detection create_detection builds; id is the number of the detection.
create_detection(id, detection_type, confidence, sensors, t) ==
    [id |-> id,
     timestamp |-> t,
     detection_type |-> detection_type,
     confidence |-> confidence,
     severity |-> SeverityOf(confidence),
     sensors |-> sensors,
     entropy_deviation |-> Zero,
     anomaly_count |-> 0,
     correlation_score |-> Zero,
     classification |-> NoClassification]

\* A push that never drains: what PushRecent rules out.
PushUnbounded(recent, detection) == Append(recent, detection)

\* recent.push(detection.clone()); if recent.len() > 1000 { drain the front }
PushRecent(recent, detection) ==
    LET pushed == Append(recent, detection)
    IN IF Len(pushed) > RecentLimit
       THEN SubSeq(pushed, Len(pushed) - RecentLimit + 1, Len(pushed))
       ELSE pushed

InitDetect ==
    /\ InitCorr
    /\ IdleDetect

\* The reading branch of DetectionEngine::run: process_reading adds the
\* reading to the correlator and checks for a correlation; a correlation
\* event becomes a Detection (create_detection), which record_detection
\* counts, stores and publishes.  Neither self.fusion_engine nor
\* self.classifier is called.
ProcessReading ==
    /\ arrivals < MaxReadings
    /\ \E id \in SensorIds, off \in TimestampOffsets, shape \in DataShapes :
           LET entry == [seq |-> arrivals + 1,
                         timestamp |-> now + off,
                         anomaly_score |-> quick_anomaly_score(shape)]
               added == add_reading(buffers, id, entry, now)
               correlated == check_correlation(added, now)
               detection == create_detection(detection_count + 1, "CorrelatedAnomaly",
                                             correlated.confidence, correlated.sensors, now)
           IN /\ buffers' = added
              /\ corr_event' = correlated
              /\ IF correlated # NoEvent
                 THEN /\ detection_count' = detection_count + 1
                      /\ recent_detections' = PushRecent(recent_detections, detection)
                      /\ published' = Append(published, detection)
                 ELSE UNCHANGED <<detection_count, recent_detections, published>>
    /\ arrivals' = arrivals + 1
    /\ lastop' = "process"
    /\ UNCHANGED <<now, passes>>
    /\ UNCHANGED NotDetect

NextDetect == Tick \/ ProcessReading
----------------------------------------------------------------------------
(* AuthManager (security/auth.rs): the sessions                            *)

\* Session ids are 1..MaxSessions in the order of creation: a fresh
\* uuid::Uuid::new_v4() for every create_session.
MaxSessions == 2

SessionIds == 1 .. MaxSessions

\* Utc::now() advances second by second up to MaxClock.
MaxClock == 2

Users == {"user1", "user2"}

\* duration_secs of create_session
Durations == {0, 2}

NoSession == [none |-> TRUE]

Unit == [unit |-> TRUE]

\* A returned bool.
Returned(b) == [bool |-> b]

IdleAuth ==
    /\ sessions = <<>>
    /\ auth_now = 0
    /\ issued = <<>>
    /\ invalidated = {}
    /\ auth_ret = NoReturn

\* self.sessions.insert(session_id, session.clone())
Insert(map, key, value) == [k \in DOMAIN map \cup {key} |-> IF k = key THEN value ELSE map[k]]

\* An invalidation that leaves the session active: what Deactivated rules
\* out.
LeftActive(session) == session

\* session.is_active = false
Deactivated(session) == [session EXCEPT !.is_active = FALSE]

\* self.sessions.get(session_id).and_then(|session| if session.is_active &&
\* session.expires_at > Utc::now() { Some(session) } else { None })
validate_session(map, session_id, t) ==
    IF session_id \in DOMAIN map
          /\ map[session_id].is_active
          /\ map[session_id].expires_at > t
    THEN map[session_id]
    ELSE NoSession

\* AuthManager::new: no session.
InitAuth ==
    /\ sessions = <<>>
    /\ auth_now = 0
    /\ issued = <<>>
    /\ invalidated = {}
    /\ auth_ret = NoReturn

\* Time passes between two calls.
AuthTick ==
    /\ auth_now < MaxClock
    /\ auth_now' = auth_now + 1
    /\ UNCHANGED <<sessions, issued, invalidated, auth_ret>>
    /\ UNCHANGED NotAuth

CreateSession(user_id, duration_secs) ==
    LET session_id == Cardinality(DOMAIN issued) + 1
        session == [id |-> session_id,
                    user_id |-> user_id,
                    created_at |-> auth_now,
                    expires_at |-> auth_now + duration_secs,
                    is_active |-> TRUE]
    IN /\ session_id \in SessionIds
       /\ sessions' = Insert(sessions, session_id, session)
       /\ issued' = Insert(issued, session_id, session)
       /\ auth_ret' = session
       /\ UNCHANGED <<auth_now, invalidated>>
       /\ UNCHANGED NotAuth

ValidateSession(session_id) ==
    /\ auth_ret' = validate_session(sessions, session_id, auth_now)
    /\ UNCHANGED <<sessions, auth_now, issued, invalidated>>
    /\ UNCHANGED NotAuth

\* if let Some(session) = self.sessions.get_mut(session_id) {
\* session.is_active = false; true } else { false }
InvalidateSession(session_id) ==
    /\ IF session_id \in DOMAIN sessions
       THEN /\ sessions' = [sessions EXCEPT ![session_id] = Deactivated(@)]
            /\ invalidated' = invalidated \cup {session_id}
            /\ auth_ret' = Returned(TRUE)
       ELSE /\ UNCHANGED <<sessions, invalidated>>
            /\ auth_ret' = Returned(FALSE)
    /\ UNCHANGED <<auth_now, issued>>
    /\ UNCHANGED NotAuth

InvalidateAllSessions(user_id) ==
    /\ sessions' = [k \in DOMAIN sessions |->
                       IF sessions[k].user_id = user_id THEN Deactivated(sessions[k])
                       ELSE sessions[k]]
    /\ invalidated' = invalidated \cup {k \in DOMAIN sessions : sessions[k].user_id = user_id}
    /\ auth_ret' = Unit
    /\ UNCHANGED <<auth_now, issued>>
    /\ UNCHANGED NotAuth

\* self.sessions.retain(|_, session| session.expires_at > now)
CleanupSessions ==
    /\ sessions' = [k \in {j \in DOMAIN sessions : sessions[j].expires_at > auth_now} |->
                       sessions[k]]
    /\ auth_ret' = Unit
    /\ UNCHANGED <<auth_now, issued, invalidated>>
    /\ UNCHANGED NotAuth

NextAuth ==
    \/ AuthTick
    \/ \E user_id \in Users, duration_secs \in Durations : CreateSession(user_id, duration_secs)
    \/ \E session_id \in SessionIds : ValidateSession(session_id)
    \/ \E session_id \in SessionIds : InvalidateSession(session_id)
    \/ \E user_id \in Users : InvalidateAllSessions(user_id)
    \/ CleanupSessions
----------------------------------------------------------------------------
(* check_correlation over more than five sensor identities                 *)

\* Number of sensor identities with a buffer in the correlator.
ManySensors == 6

\* A buffer holds nothing, or one entry stamped at the time of the check
\* whose quick anomaly score is above 0.3.
FreshBuffers ==
    {<<>>} \cup {<<[seq |-> 1, timestamp |-> 0, anomaly_score |-> quick_anomaly_score(shape)]>> :
                    shape \in {"z1", "z6"}}

InitMany ==
    /\ call \in {[fn |-> "check_correlation", bufs |-> b] :
                    b \in [1 .. ManySensors -> FreshBuffers]}
    /\ result = NoReturn

CheckMany == Returns("check_correlation", check_correlation(call.bufs, 0))

NextMany == CheckMany

----------------------------------------------------------------------------
(* DetectionEngine::record_detection, lock by lock                         *)

\* Detections handed to record_detection by the run loop.
MaxRecorded == 1002

NoDetection == [none |-> TRUE]

IdleRecord ==
    /\ rec_pc = "idle"
    /\ rec_detection = NoDetection

\* DetectionEngine::new: recent_detections = Vec::new(), detection_count = 0
InitRecord ==
    /\ IdleDetect
    /\ IdleRecord

\* { let mut count = self.detection_count.write().await; *count += 1; }
\* The detection is the n-th the run loop hands over.
RecordCount ==
    /\ rec_pc = "idle"
    /\ Len(published) < MaxRecorded
    /\ rec_detection' = [id |-> Len(published) + 1]
    /\ detection_count' = detection_count + 1
    /\ rec_pc' = "counted"
    /\ UNCHANGED <<recent_detections, published, passes>>
    /\ UNCHANGED NotRecord

\* { let mut recent = self.recent_detections.write().await;
\*   recent.push(detection.clone()); if recent.len() > 1000 { drain } }
RecordStore ==
    /\ rec_pc = "counted"
    /\ recent_detections' = PushRecent(recent_detections, rec_detection)
    /\ rec_pc' = "stored"
    /\ UNCHANGED <<rec_detection, detection_count, published, passes>>
    /\ UNCHANGED NotRecord

\* self.event_bus.publish_detection(detection)
RecordPublish ==
    /\ rec_pc = "stored"
    /\ published' = Append(published, rec_detection)
    /\ rec_pc' = "idle"
    /\ rec_detection' = NoDetection
    /\ UNCHANGED <<recent_detections, detection_count, passes>>
    /\ UNCHANGED NotRecord

NextRecord == RecordCount \/ RecordStore \/ RecordPublish

----------------------------------------------------------------------------
(* EventBus: concurrent publishers of the generic event channel            *)

\* Tasks that publish: the sensor manager, the detection engine.
Publishers == {"sensor_manager", "detection_engine"}

\* Events published in all.
MaxEvents == 3

\* EventBus::new(capacity): what event_tx retains for a slow subscriber.
EventCapacity == 2

NoBuiltEvent == [none |-> TRUE]

\* publish_reading, publish_detection, publish_alert, publish_error
EventTypes == {"SensorReading", "Detection", "Alert", "Error"}

IdleEvents ==
    /\ event_counter = 0
    /\ typed_sent = [reading |-> 0, detection |-> 0]
    /\ event_tx = <<>>
    /\ ev_pc = [p \in Publishers |-> "idle"]
    /\ ev_event = [p \in Publishers |-> NoBuiltEvent]
    /\ ev_cursor = 0
    /\ ev_received = <<>>

\* EventBus::new: event_counter = 0, empty channels; one subscriber of
\* subscribe_events.
InitEvents == IdleEvents

\* let _ = self.reading_tx.send(..) / self.detection_tx.send(..)
TypedSend(counts, event_type) ==
    CASE event_type = "SensorReading" -> [counts EXCEPT !.reading = @ + 1]
      [] event_type = "Detection" -> [counts EXCEPT !.detection = @ + 1]
      [] OTHER -> counts

\* publish_*, up to the id: the send on the typed channel, then in
\* publish_event  let id = self.event_counter.fetch_add(1, Relaxed)  and the
\* Event built with it.
PublishAssign(p, event_type) ==
    /\ ev_pc[p] = "idle"
    /\ event_counter < MaxEvents
    /\ typed_sent' = TypedSend(typed_sent, event_type)
    /\ event_counter' = event_counter + 1
    /\ ev_event' = [ev_event EXCEPT ![p] = [id |-> event_counter, event_type |-> event_type]]
    /\ ev_pc' = [ev_pc EXCEPT ![p] = "assigned"]
    /\ UNCHANGED <<event_tx, ev_cursor, ev_received>>
    /\ UNCHANGED NotEvents

\* let _ = self.event_tx.send(event)
PublishSend(p) ==
    /\ ev_pc[p] = "assigned"
    /\ event_tx' = Append(event_tx, ev_event[p])
    /\ ev_pc' = [ev_pc EXCEPT ![p] = "idle"]
    /\ ev_event' = [ev_event EXCEPT ![p] = NoBuiltEvent]
    /\ UNCHANGED <<event_counter, typed_sent, ev_cursor, ev_received>>
    /\ UNCHANGED NotEvents

\* broadcast::Receiver::recv of the subscriber: the next event in the order
\* sent; a subscriber more than the capacity behind gets Lagged and resumes
\* at the oldest event retained.
EventRecv ==
    /\ ev_cursor < Len(event_tx)
    /\ IF Len(event_tx) - ev_cursor > EventCapacity
       THEN /\ ev_cursor' = Len(event_tx) - EventCapacity
            /\ UNCHANGED ev_received
       ELSE /\ ev_cursor' = ev_cursor + 1
            /\ ev_received' = Append(ev_received, event_tx[ev_cursor + 1].id)
    /\ UNCHANGED <<event_counter, typed_sent, event_tx, ev_pc, ev_event>>
    /\ UNCHANGED NotEvents

NextEvents ==
    \/ \E p \in Publishers, event_type \in EventTypes : PublishAssign(p, event_type)
    \/ \E p \in Publishers : PublishSend(p)
    \/ EventRecv

----------------------------------------------------------------------------
(* SensorManager: add_sensor and remove_sensor                             *)

RegistryIds == {"thermal-array-1", "accel-1", "emf-probe-1", "infrasound-1"}

RegistryTypes == {"ThermalArray", "Accelerometer"}

EmptyMap == <<>>

\* HashMap::remove
Remove(map, key) == [k \in DOMAIN map \ {key} |-> map[k]]

\* The SensorHealth add_sensor inserts.
NewHealth(id) ==
    [sensor_id |-> id, status |-> "Disconnected", readings_count |-> 0, error_count |-> 0]

IdleRegistry ==
    /\ reg_sensors = EmptyMap
    /\ reg_health = EmptyMap
    /\ reg_ret = NoReturn

\* SensorManager::new with demo_mode = false: both maps empty.
InitRegistry == IdleRegistry

\* add_sensor: sensors.insert(id, sensor); health.insert(id, SensorHealth
\* {..}); Ok(())
AddSensor(id, sensor_type) ==
    /\ reg_sensors' = Insert(reg_sensors, id, [sensor_type |-> sensor_type])
    /\ reg_health' = Insert(reg_health, id, NewHealth(id))
    /\ reg_ret' = "Ok"
    /\ UNCHANGED NotRegistry

\* remove_sensor: if let Some(mut sensor) = sensors.remove(id)
\* { sensor.disconnect().await?; }  health.remove(id); Ok(())
\* The ? returns the error of a failed disconnect before health.remove.
RemoveSensor(id, disconnects) ==
    /\ reg_sensors' = Remove(reg_sensors, id)
    /\ IF id \in DOMAIN reg_sensors /\ ~disconnects
       THEN /\ reg_ret' = "Err"
            /\ UNCHANGED reg_health
       ELSE /\ reg_health' = Remove(reg_health, id)
            /\ reg_ret' = "Ok"
    /\ UNCHANGED NotRegistry

NextRegistry ==
    \/ \E id \in RegistryIds, sensor_type \in RegistryTypes : AddSensor(id, sensor_type)
    \/ \E id \in RegistryIds, disconnects \in BOOLEAN : RemoveSensor(id, disconnects)

----------------------------------------------------------------------------
(* WebSocketServer: the accept loop and handle_connection                  *)

\* WebSocketServer::new(port, max_clients)
max_clients == 2

\* Incoming connections; the client id of connection c is c (a fresh uuid
\* for every handle_connection).
MaxConnections == 4

Connections == 1 .. MaxConnections

Topics == {"*", "detections"}

IdleWs ==
    /\ ws_clients = EmptyMap
    /\ ws_conn = [c \in Connections |-> "none"]

\* WebSocketServer::new: no client.
InitWs == IdleWs

\* The accept branch of the loop start spawns: let client_count =
\* clients.read().await.len(); if client_count >= max_clients { continue }
\* tokio::spawn(handle_connection(..)).  The read lock is released before the
\* task is spawned.
Accept(c) ==
    /\ ws_conn[c] = "none"
    /\ ws_conn' = [ws_conn EXCEPT ![c] = IF Cardinality(DOMAIN ws_clients) >= max_clients
                                         THEN "rejected"
                                         ELSE "handshake"]
    /\ UNCHANGED ws_clients
    /\ UNCHANGED NotWs

\* handle_connection up to the registration: accept_async(stream).await,
\* return on a failed handshake, else clients.write().await.insert(..).
Handshake(c, succeeds) ==
    /\ ws_conn[c] = "handshake"
    /\ IF succeeds
       THEN /\ ws_clients' = Insert(ws_clients, c, [addr |-> c, subscriptions |-> <<"*">>])
            /\ ws_conn' = [ws_conn EXCEPT ![c] = "registered"]
       ELSE /\ ws_conn' = [ws_conn EXCEPT ![c] = "failed"]
            /\ UNCHANGED ws_clients
    /\ UNCHANGED NotWs

\* The "subscribe" command: client.subscriptions.push(topic)
WsSubscribe(c, topic) ==
    /\ ws_conn[c] = "registered"
    /\ Len(ws_clients[c].subscriptions) < 2
    /\ ws_clients' = [ws_clients EXCEPT ![c].subscriptions = Append(@, topic)]
    /\ UNCHANGED ws_conn
    /\ UNCHANGED NotWs

\* The "unsubscribe" command: client.subscriptions.retain(|s| s != topic)
WsUnsubscribe(c, topic) ==
    /\ ws_conn[c] = "registered"
    /\ ws_clients' = [ws_clients EXCEPT ![c].subscriptions =
                         SelectSeq(@, LAMBDA t : t # topic)]
    /\ UNCHANGED ws_conn
    /\ UNCHANGED NotWs

\* The message loop breaks (Close, an error, end of stream, a failed send):
\* clients.write().await.remove(&client_id)
Disconnect(c) ==
    /\ ws_conn[c] = "registered"
    /\ ws_clients' = Remove(ws_clients, c)
    /\ ws_conn' = [ws_conn EXCEPT ![c] = "closed"]
    /\ UNCHANGED NotWs

NextWs ==
    \/ \E c \in Connections : Accept(c)
    \/ \E c \in Connections, succeeds \in BOOLEAN : Handshake(c, succeeds)
    \/ \E c \in Connections, topic \in Topics : WsSubscribe(c, topic)
    \/ \E c \in Connections, topic \in Topics : WsUnsubscribe(c, topic)
    \/ \E c \in Connections : Disconnect(c)

----------------------------------------------------------------------------
(* AuthManager (security/auth.rs): failed attempts and lockout             *)

\* AuthManager::new
lockout_threshold == 5

\* Duration::minutes(15)
lockout_duration == 15

Identifiers == {"alice", "bob"}

\* Failed attempts recorded per identifier between two clears.
MaxAttempts == 6

\* Utc::now() advances in steps of LockTick minutes up to MaxLockClock.
LockTick == 5

MaxLockClock == 20

\* No failed attempt since the last clear.
NoAttempts == [count |-> 0, latest |-> 0]

IdleLockout ==
    /\ failed_attempts = EmptyMap
    /\ lock_now = 0
    /\ since_clear = [id \in Identifiers |-> NoAttempts]
    /\ lock_ret = NoReturn

\* A threshold that has to be exceeded: what ThresholdReached rules out.
ThresholdExceeded(attempts) == attempts > lockout_threshold

\* if *attempts >= self.lockout_threshold
ThresholdReached(attempts) == attempts >= lockout_threshold

\* is_locked_out: an entry with attempts >= lockout_threshold and
\* Utc::now() < last_attempt + lockout_duration
is_locked_out(map, identifier, t) ==
    /\ identifier \in DOMAIN map
    /\ ThresholdReached(map[identifier].attempts)
    /\ t < map[identifier].last_attempt + lockout_duration

\* record_failed_attempt: entry(identifier).or_insert((0, Utc::now()));
\* entry.0 += 1; entry.1 = Utc::now()
record_failed_attempt(map, identifier, t) ==
    LET entry == IF identifier \in DOMAIN map
                 THEN map[identifier]
                 ELSE [attempts |-> 0, last_attempt |-> t]
    IN Insert(map, identifier, [attempts |-> entry.attempts + 1, last_attempt |-> t])

\* AuthManager::new: failed_attempts = HashMap::new()
InitLockout == IdleLockout

\* Time passes between two calls.
LockoutTick ==
    /\ lock_now + LockTick <= MaxLockClock
    /\ lock_now' = lock_now + LockTick
    /\ lock_ret' = NoReturn
    /\ UNCHANGED <<failed_attempts, since_clear>>
    /\ UNCHANGED NotLockout

IsLockedOut(identifier) ==
    /\ lock_ret' = [identifier |-> identifier,
                    locked |-> is_locked_out(failed_attempts, identifier, lock_now)]
    /\ UNCHANGED <<failed_attempts, lock_now, since_clear>>
    /\ UNCHANGED NotLockout

RecordFailedAttempt(identifier) ==
    /\ since_clear[identifier].count < MaxAttempts
    /\ failed_attempts' = record_failed_attempt(failed_attempts, identifier, lock_now)
    /\ since_clear' = [since_clear EXCEPT ![identifier] =
                          [count |-> @.count + 1, latest |-> lock_now]]
    /\ lock_ret' = NoReturn
    /\ UNCHANGED lock_now
    /\ UNCHANGED NotLockout

\* clear_failed_attempts: self.failed_attempts.remove(identifier)
ClearFailedAttempts(identifier) ==
    /\ failed_attempts' = Remove(failed_attempts, identifier)
    /\ since_clear' = [since_clear EXCEPT ![identifier] = NoAttempts]
    /\ lock_ret' = NoReturn
    /\ UNCHANGED lock_now
    /\ UNCHANGED NotLockout

NextLockout ==
    \/ LockoutTick
    \/ \E identifier \in Identifiers : IsLockedOut(identifier)
    \/ \E identifier \in Identifiers : RecordFailedAttempt(identifier)
    \/ \E identifier \in Identifiers : ClearFailedAttempts(identifier)

----------------------------------------------------------------------------
(* SensorManager::run: the loop that reads the sensors and publishes       *)

\* _ = read_interval.tick() => the branch of the reading is taken.
ManagerTick ==
    /\ mpc = "select"
    /\ mpc' = "reading"
    /\ UNCHANGED busVars
    /\ UNCHANGED NotRun

\* self.read_all_sensors().await: an active sensor's reading is published
\* (publish_reading), or nothing is (no active sensor, or a read error).
ManagerRead ==
    /\ mpc = "reading"
    /\ mpc' = "select"
    /\ \/ /\ sent < MaxPublished
          /\ sent' = sent + 1
          /\ channel' = IF Receivers(rstate) # {} THEN Append(channel, sent + 1) ELSE channel
          /\ due' = [t \in Subscribers |->
                        IF t \in Receivers(rstate) THEN Append(due[t], sent + 1) ELSE due[t]]
          /\ UNCHANGED <<cursor, rstate, processed, shutdown>>
       \/ UNCHANGED busVars
    /\ UNCHANGED NotRun

\* The run returns at once: what ManagerStop rules out is a loop that never
\* looks at the shutdown signal.
ManagerIgnoresShutdown ==
    /\ mpc = "stopped"
    /\ UNCHANGED vars

\* _ = shutdown.recv() => break
ManagerStop ==
    /\ mpc = "select"
    /\ shutdown
    /\ mpc' = "stopped"
    /\ UNCHANGED busVars
    /\ UNCHANGED NotRun

NextRun == NextBus \/ ManagerTick \/ ManagerRead \/ ManagerStop

IdleManager == mpc = "idle"

----------------------------------------------------------------------------
(* Specifications, one per component                                       *)

IdleFusion ==
    /\ sensor_weights = <<>>
    /\ readings = <<>>
    /\ fresult = [none |-> TRUE]


IdleCorr ==
    /\ now = 0
    /\ buffers = <<>>
    /\ arrivals = 0
    /\ corr_event = [none |-> TRUE]
    /\ lastop = "idle"

StartMerge == InitMerge /\ IdleCusum /\ IdleCombine /\ IdleFusion /\ IdleCorr /\ IdleTasks /\ IdleBus /\ IdleManager /\ IdleWindow /\ IdlePure /\ IdleDetect /\ IdleAuth /\ IdleRecord /\ IdleEvents /\ IdleRegistry /\ IdleWs /\ IdleLockout

SpecMerge == StartMerge /\ [][NextMerge]_vars

StartCusum == InitCusum /\ IdleMerge /\ IdleCombine /\ IdleFusion /\ IdleCorr /\ IdleTasks /\ IdleBus /\ IdleManager /\ IdleWindow /\ IdlePure /\ IdleDetect /\ IdleAuth /\ IdleRecord /\ IdleEvents /\ IdleRegistry /\ IdleWs /\ IdleLockout

SpecCusum == StartCusum /\ [][NextCusum]_vars

StartCombine == InitCombine /\ IdleMerge /\ IdleCusum /\ IdleFusion /\ IdleCorr /\ IdleTasks /\ IdleBus /\ IdleManager /\ IdleWindow /\ IdlePure /\ IdleDetect /\ IdleAuth /\ IdleRecord /\ IdleEvents /\ IdleRegistry /\ IdleWs /\ IdleLockout

SpecCombine == StartCombine /\ [][NextCombine]_vars

StartFusion == InitFusion /\ IdleMerge /\ IdleCusum /\ IdleCombine /\ IdleCorr /\ IdleTasks /\ IdleBus /\ IdleManager /\ IdleWindow /\ IdlePure /\ IdleDetect /\ IdleAuth /\ IdleRecord /\ IdleEvents /\ IdleRegistry /\ IdleWs /\ IdleLockout

SpecFusion == StartFusion /\ [][NextFusion]_vars

SpecWeights == StartFusion /\ [][NextWeights]_vars

StartCorr == InitCorr /\ IdleMerge /\ IdleCusum /\ IdleCombine /\ IdleFusion /\ IdleTasks /\ IdleBus /\ IdleManager /\ IdleWindow /\ IdlePure /\ IdleDetect /\ IdleAuth /\ IdleRecord /\ IdleEvents /\ IdleRegistry /\ IdleWs /\ IdleLockout

SpecCorr == StartCorr /\ [][NextCorr]_vars

StartTasks == InitTasks /\ IdleMerge /\ IdleCusum /\ IdleCombine /\ IdleFusion /\ IdleBus /\ IdleManager /\ IdleWindow /\ IdlePure /\ IdleDetect /\ IdleAuth /\ IdleRecord /\ IdleEvents /\ IdleRegistry /\ IdleWs /\ IdleLockout

SpecTasks == StartTasks /\ [][NextTasks]_vars

StartBus ==
    InitBus /\ IdleMerge /\ IdleCusum /\ IdleCombine /\ IdleFusion /\ IdleCorr /\ IdleTasks /\ IdleManager /\ IdleWindow /\ IdlePure /\ IdleDetect /\ IdleAuth /\ IdleRecord /\ IdleEvents /\ IdleRegistry /\ IdleWs /\ IdleLockout

SpecBus == StartBus /\ [][NextBus]_vars

\* Everything but the pure-function call is idle.
IdleButPure ==
    IdleMerge /\ IdleCusum /\ IdleCombine /\ IdleFusion /\ IdleCorr /\ IdleTasks /\ IdleBus /\ IdleManager /\ IdleWindow /\ IdleDetect /\ IdleAuth /\ IdleRecord /\ IdleEvents /\ IdleRegistry /\ IdleWs /\ IdleLockout

StartPercentile == InitPercentile /\ IdleButPure /\ IdleDetect /\ IdleAuth /\ IdleRecord /\ IdleEvents /\ IdleRegistry /\ IdleWs /\ IdleLockout

StartTests == InitTests /\ IdleButPure /\ IdleDetect /\ IdleAuth /\ IdleRecord /\ IdleEvents /\ IdleRegistry /\ IdleWs /\ IdleLockout

SpecTests == StartTests /\ [][NextTests]_vars

StartClassify == InitClassify /\ IdleButPure /\ IdleDetect /\ IdleAuth /\ IdleRecord /\ IdleEvents /\ IdleRegistry /\ IdleWs /\ IdleLockout

SpecClassify == StartClassify /\ [][NextClassify]_vars

StartEntropy == InitEntropy /\ IdleButPure /\ IdleDetect /\ IdleAuth /\ IdleRecord /\ IdleEvents /\ IdleRegistry /\ IdleWs /\ IdleLockout

SpecEntropy == StartEntropy /\ [][NextEntropy]_vars
StartDegenerate == InitDegenerate /\ IdleButPure /\ IdleDetect /\ IdleAuth /\ IdleRecord /\ IdleEvents /\ IdleRegistry /\ IdleWs /\ IdleLockout

SpecDegenerate == StartDegenerate /\ [][NextDegenerate]_vars
StartDetect == InitDetect /\ IdleMerge /\ IdleCusum /\ IdleCombine /\ IdleFusion /\ IdleTasks /\ IdleBus /\ IdleManager /\ IdleWindow /\ IdlePure /\ IdleAuth /\ IdleRecord /\ IdleEvents /\ IdleRegistry /\ IdleWs /\ IdleLockout

SpecDetect == StartDetect /\ [][NextDetect]_vars
StartAuth == InitAuth /\ IdleMerge /\ IdleCusum /\ IdleCombine /\ IdleFusion /\ IdleCorr /\ IdleTasks /\ IdleBus /\ IdleManager /\ IdleWindow /\ IdlePure /\ IdleDetect /\ IdleRecord /\ IdleEvents /\ IdleRegistry /\ IdleWs /\ IdleLockout

SpecAuth == StartAuth /\ [][NextAuth]_vars
StartMany == InitMany /\ IdleButPure /\ IdleRecord /\ IdleEvents /\ IdleRegistry /\ IdleWs /\ IdleLockout

SpecMany == StartMany /\ [][NextMany]_vars

StartRecord == InitRecord /\ IdleMerge /\ IdleCusum /\ IdleCombine /\ IdleFusion /\ IdleCorr /\ IdleTasks /\ IdleBus /\ IdleManager /\ IdleWindow /\ IdlePure /\ IdleAuth /\ IdleEvents /\ IdleRegistry /\ IdleWs /\ IdleLockout

SpecRecord == StartRecord /\ [][NextRecord]_vars

StartEvents == InitEvents /\ IdleMerge /\ IdleCusum /\ IdleCombine /\ IdleFusion /\ IdleCorr /\ IdleTasks /\ IdleBus /\ IdleManager /\ IdleWindow /\ IdlePure /\ IdleDetect /\ IdleAuth /\ IdleRecord /\ IdleRegistry /\ IdleWs /\ IdleLockout

SpecEvents == StartEvents /\ [][NextEvents]_vars

StartRegistry == InitRegistry /\ IdleMerge /\ IdleCusum /\ IdleCombine /\ IdleFusion /\ IdleCorr /\ IdleTasks /\ IdleBus /\ IdleManager /\ IdleWindow /\ IdlePure /\ IdleDetect /\ IdleAuth /\ IdleRecord /\ IdleEvents /\ IdleWs /\ IdleLockout

SpecRegistry == StartRegistry /\ [][NextRegistry]_vars

StartWs == InitWs /\ IdleMerge /\ IdleCusum /\ IdleCombine /\ IdleFusion /\ IdleCorr /\ IdleTasks /\ IdleBus /\ IdleManager /\ IdleWindow /\ IdlePure /\ IdleDetect /\ IdleAuth /\ IdleRecord /\ IdleEvents /\ IdleRegistry /\ IdleLockout

SpecWs == StartWs /\ [][NextWs]_vars

StartLockout == InitLockout /\ IdleMerge /\ IdleCusum /\ IdleCombine /\ IdleFusion /\ IdleCorr /\ IdleTasks /\ IdleBus /\ IdleManager /\ IdleWindow /\ IdlePure /\ IdleDetect /\ IdleAuth /\ IdleRecord /\ IdleEvents /\ IdleRegistry /\ IdleWs

SpecLockout == StartLockout /\ [][NextLockout]_vars

SpecPercentile == StartPercentile /\ [][NextPercentile]_vars

StartWindow ==
    InitWindow /\ IdleCusum /\ IdleCombine /\ IdleFusion /\ IdleCorr /\ IdleTasks /\ IdleBus /\ IdleManager /\ IdlePure /\ IdleDetect /\ IdleAuth /\ IdleRecord /\ IdleEvents /\ IdleRegistry /\ IdleWs /\ IdleLockout

SpecWindow == StartWindow /\ [][NextWindow]_vars

StartRun ==
    InitBus /\ mpc = "select" /\ IdleMerge /\ IdleCusum /\ IdleCombine /\ IdleFusion /\ IdleCorr /\ IdleTasks /\ IdleWindow /\ IdlePure /\ IdleDetect /\ IdleAuth /\ IdleRecord /\ IdleEvents /\ IdleRegistry /\ IdleWs /\ IdleLockout

\* tokio::select! polls its branches in random order, so a branch that is
\* ready again and again is taken in the end (strong fairness of the
\* shutdown branches); a started read_all_sensors returns.
SpecRun ==
    /\ StartRun
    /\ [][NextRun]_vars
    /\ \A t \in Subscribers : SF_vars(Stop(t))
    /\ SF_vars(ManagerStop)
    /\ WF_vars(ManagerRead)

----------------------------------------------------------------------------
(* Claims                                                                  *)

\* C1: whenever two or more detectors report an anomaly at one index, the
\* merged list holds exactly one anomaly at that index and its score is the
\* largest score reported for that index.
AllReported == Range(det_stat) \cup Range(det_iforest) \cup Range(det_cusum) \cup Range(det_lof)

ReportersAt(i) ==
    Cardinality({k \in 1 .. 4 :
        \E a \in Range(<<det_stat, det_iforest, det_cusum, det_lof>>[k]) : a.index = i})

C1_MergeKeepsMaxScore ==
    dpc = "done" =>
        \A i \in Indices :
            ReportersAt(i) >= 2 =>
                /\ Cardinality({j \in DOMAIN merged : merged[j].index = i}) = 1
                /\ \A j \in DOMAIN merged :
                       merged[j].index = i =>
                           \A a \in AllReported : a.index = i => merged[j].score >= a.score

\* C2: for a series flat on indices 0..49 and flat at a level 10 sigma higher
\* from index 50 on, detect_cusum returns exactly one ChangePoint, located
\* near index 50 (within NearStep samples), and none elsewhere.
NearStep == 5

IsStepSeries ==
    /\ Len(cdata) > StepAt
    /\ \E a \in StepHeights \ {0}, e \in NoiseAmplitudes :
           cdata = SteppedSeries(Len(cdata), a, e)

C2_CusumOneChangePointAtStep ==
    (cpc = "done" /\ IsStepSeries) =>
        /\ Len(cusum_out) = 1
        /\ cusum_out[1].index >= StepAt - NearStep
        /\ cusum_out[1].index <= StepAt + NearStep

\* C3: for every pair of belief masses whose components are in [0,1] and sum
\* to 1, the mass combine_belief_masses returns sums to 1, total conflict
\* included.
C3_CombinedMassSumsToOne ==
    bmOut # NoMass => MassSum(bmOut) = One

\* C4: for scores, weights and priors in [0,1], the confidence each of the
\* three fusion strategies returns is within [0,1].
C4_FusionConfidenceInUnit ==
    fresult # NoResult => InUnit(fresult.confidence)

C4_Witness ==
    /\ fresult # NoResult
    /\ fresult.method = "bayesian"
    /\ Len(readings) >= 2
    /\ FLt(Zero, fresult.confidence)
    /\ FLt(fresult.confidence, One)
    /\ \E t \in DOMAIN sensor_weights : sensor_weights[t] = One

\* The batches that hold the same readings in another order.
Reorderings(batch) ==
    {[i \in DOMAIN batch |-> batch[f[i]]] :
        f \in {g \in [DOMAIN batch -> DOMAIN batch] :
                   \A i, j \in DOMAIN batch : i # j => g[i] # g[j]}}

FuseWith(method, batch, prior, weights) ==
    CASE method = "bayesian" -> bayesian_fusion(batch, prior, weights)
      [] method = "dempster_shafer" -> dempster_shafer_fusion(batch, weights)
      [] OTHER -> weighted_fusion(batch, weights)

\* C8: each fusion strategy returns the same confidence and the same
\* detection kind for every permutation of the batch.
C8_FusionOrderIndependent ==
    fresult # NoResult =>
        \A p \in Reorderings(readings) :
            FuseWith(fresult.method, p, fresult.prior, sensor_weights) = fresult

\* C5: after any sequence of add_reading calls, with any timestamps and any
\* passage of time between the calls, no per-sensor buffer holds an entry
\* whose timestamp is older than now - buffer_duration_ms.
C5_NoEntryOlderThanBufferDuration ==
    lastop = "add" =>
        \A id \in SensorIds : \A i \in DOMAIN buffers[id] :
            buffers[id][i].timestamp >= now - buffer_duration_ms

\* The sensor identities with a buffered entry whose score is above 0.3 and
\* whose timestamp is not before the start of the correlation window.
QualifyingEntries(id) ==
    {i \in DOMAIN buffers[id] :
        /\ buffers[id][i].anomaly_score > AnomalousAbove
        /\ buffers[id][i].timestamp >= now - correlation_window_ms}

QualifyingSensors == {id \in SensorIds : QualifyingEntries(id) # {}}

CollectedEntries(id) ==
    {i \in DOMAIN buffers[id] :
        /\ buffers[id][i].anomaly_score > AnomalousAbove
        /\ \A j \in i .. Len(buffers[id]) :
               buffers[id][j].timestamp >= now - correlation_window_ms}

Collected == UNION {{<<id, i>> : i \in CollectedEntries(id)} : id \in SensorIds}

CollectedSensors == {id \in SensorIds : CollectedEntries(id) # {}}

RECURSIVE ScoreTotal(_)
ScoreTotal(pairs) ==
    IF pairs = {} THEN 0
    ELSE LET p == CHOOSE q \in pairs : TRUE
         IN buffers[p[1]][p[2]].anomaly_score + ScoreTotal(pairs \ {p})

\* 0.6 * (average score of the collected entries) + 0.4 * (sensors / 5),
\* times 5 * ScoreScale * (number of entries), as an integer.
ConfidenceValue ==
    Frac(3 * ScoreTotal(Collected) * 5
           + 2 * ScoreScale * Cardinality(CollectedSensors) * Cardinality(Collected),
         5 * 5 * ScoreScale * Cardinality(Collected))

C9_ArrivalOrderAndAtomicAdd ==
    /\ \A id \in SensorIds : \A i, j \in DOMAIN buffers[id] :
           i < j => buffers[id][i].seq < buffers[id][j].seq
    /\ \A t \in TaskIds : tpc[t] \in InCritical => mutex = t
    /\ \A t \in TaskIds :
           (tpc[t] = "prune" /\ ~FrontIsOld(buffers[tctx[t].sensor_id], tctx[t].cutoff)) =>
               buffers = add_reading(tctx[t].before, tctx[t].sensor_id, tctx[t].entry,
                                     tctx[t].cutoff + buffer_duration_ms)

C9_Witness ==
    \E t1, t2 \in TaskIds :
        /\ t1 # t2
        /\ tpc[t1] = "prune"
        /\ tpc[t2] = "added"
        /\ Len(buffers[tctx[t1].sensor_id]) >= 2
        /\ tctx[t2].sensor_id = tctx[t1].sensor_id

RECURSIVE IsPrefix(_, _)
IsPrefix(s, t) ==
    \/ s = <<>>
    \/ /\ t # <<>>
       /\ s[1] = t[1]
       /\ IsPrefix(Tail(s), Tail(t))

\* C10: for every subscribed task, the readings it has processed are the
\* first of those published while it was subscribed, once each and in order,
\* and every one not processed yet is still stored for it and the task is
\* still receiving: no reading is dropped for a lagging subscriber.
C10_EveryReadingDeliveredOnce ==
    \A t \in Receivers(rstate) :
        /\ IsPrefix(processed[t], due[t])
        /\ rstate[t] = "receiving"
        /\ cursor[t] >= OldestKept(channel)
        /\ Len(due[t]) - Len(processed[t]) = Len(channel) - cursor[t]

\* C11: once the shutdown signal has been broadcast, every run loop that is
\* running (AnalysisEngine, DetectionEngine, SensorManager) eventually leaves
\* its loop, whether or not readings keep being published and whether or not
\* the subscriber has lagged.
C11_ShutdownStopsEveryLoop ==
    /\ \A t \in Subscribers :
           (shutdown /\ t \in Receivers(rstate)) ~> (rstate[t] = "stopped")
    /\ shutdown ~> (mpc = "stopped")

C11_Witness ==
    /\ shutdown
    /\ mpc = "stopped"
    /\ \A t \in Subscribers : rstate[t] = "stopped"
    /\ \E t \in Subscribers : cursor[t] > Len(channel) - Len(due[t]) + Len(processed[t])

\* C12: a detector whose minimum window size (10 statistical, 100 isolation
\* forest, 20 CUSUM, 20 LOF) is not met contributes nothing; every anomaly a
\* detector whose minimum is met reports has its index in the merged list;
\* detect on fewer than 10 samples, the empty window included, returns the
\* empty list.
C12_BelowMinimumContributesNothing ==
    dpc = "done" =>
        /\ wlen < 10 => det_stat = <<>>
        /\ wlen < 100 => det_iforest = <<>>
        /\ wlen < 20 => (det_cusum = <<>> /\ det_lof = <<>>)
        /\ wlen < 10 => merged = <<>>
        /\ \A a \in Range(det_stat) \cup Range(det_iforest) \cup Range(det_cusum) \cup Range(det_lof) :
               \E k \in DOMAIN merged : merged[k].index = a.index

C12_Witness ==
    /\ dpc = "done"
    /\ wlen = 19
    /\ det_stat # <<>>
    /\ det_cusum = <<>>
    /\ det_lof = <<>>
    /\ merged = SortByScoreDesc(det_stat)

\* C13: on every non-empty sorted sequence, length 1 included, percentile
\* with p = 0 returns the minimum element and with p = 100 the maximum.
C13_PercentileEndPoints ==
    (call.fn = "percentile" /\ result # NoReturn /\ call.sorted # <<>>) =>
        /\ call.p = 0 =>
               /\ result.d = 1
               /\ \A i \in DOMAIN call.sorted : result.n <= call.sorted[i]
               /\ \E i \in DOMAIN call.sorted : result.n = call.sorted[i]
        /\ call.p = 100 =>
               /\ result.d = 1
               /\ \A i \in DOMAIN call.sorted : result.n >= call.sorted[i]
               /\ \E i \in DOMAIN call.sorted : result.n = call.sorted[i]

C13_Witness ==
    /\ call.fn = "percentile"
    /\ call.p = 100
    /\ Len(call.sorted) = 3
    /\ call.sorted[1] < call.sorted[3]
    /\ result = Frac(call.sorted[3], 1)

\* C14: welch_t_test, mann_whitney_test and ks_test called with a sample of
\* fewer than 2 values return p_value = 1.0 and significant = false.
C14_TinySamplesNeutral ==
    /\ (call.fn \in {"welch_t_test", "mann_whitney_test"} /\ result # NoReturn
          /\ (Len(call.sample1) < 2 \/ Len(call.sample2) < 2)) => result = NeutralResult
    /\ (call.fn = "ks_test" /\ result # NoReturn /\ Len(call.sample) < 2) =>
           result = NeutralResult

\* C15: for every Detection, the scores classify returns over the five
\* categories sum to 1, the reported category has the largest score, and the
\* confidence is that score.
C15_ScoresNormalized ==
    (call.fn = "classify" /\ result # NoReturn) =>
        /\ FSum(result.all_scores, Categories) = One
        /\ \A c \in Categories : FLe(result.all_scores[c], result.all_scores[result.category])
        /\ result.confidence = result.all_scores[result.category]

\* C16: for every window whose samples are all equal, of any length,
\* shannon_entropy, renyi_entropy (alpha = 2), tsallis_entropy (q = 2),
\* sample_entropy (m = 2), approximate_entropy (m = 2) and
\* permutation_entropy (order 3) return 0, never NaN.
C16_ConstantWindowsHaveZeroEntropy ==
    (call.fn \in {"shannon_entropy", "renyi_entropy", "tsallis_entropy", "sample_entropy",
                  "approximate_entropy", "permutation_entropy"} /\ result # NoReturn) =>
        result = Zero

\* C17: for every non-empty window, a single sample and equal samples
\* included, no numeric field of the record that extract_features or analyze
\* returns is NaN or infinite.
C17_DegenerateWindowsStayFinite ==
    (call.fn \in {"extract_features", "analyze"} /\ result # NoReturn /\ call.data # <<>>) =>
        \A x \in NumericFields(result) : IsFinite(x)

\* C18: every Detection the DetectionEngine records and publishes was
\* created from a fusion pass followed by a classifier pass, its
\* classification field holds the classifier's result, and it is not
\* modified after its creation.
C18_DetectionsComeFromFusionAndClassifier ==
    /\ \A i \in DOMAIN published :
           /\ published[i].classification # NoClassification
           /\ passes.fusion >= i
           /\ passes.classifier >= i
    /\ \A i \in DOMAIN recent_detections :
           \E j \in DOMAIN published : published[j] = recent_detections[i]

\* The validity of every session but `session_id` is the same before and
\* after the step.
OthersKeepValidity(session_id) ==
    \A other \in SessionIds \ {session_id} :
        validate_session(sessions', other, auth_now') = validate_session(sessions, other, auth_now)

\* C19: a session create_session returned validates (validate_session
\* returns it) until it expires or is invalidated; once invalidated,
\* validate_session returns None for it in every later state, whatever is
\* called; invalidate_session leaves the validity of the other sessions as
\* it was, and on an unknown id it returns false and changes nothing.
C19_SessionLifecycle ==
    /\ [](\A id \in DOMAIN issued :
             /\ (id \notin invalidated /\ issued[id].expires_at > auth_now) =>
                    validate_session(sessions, id, auth_now) = issued[id]
             /\ id \in invalidated => validate_session(sessions, id, auth_now) = NoSession)
    /\ [][\A id \in SessionIds :
             InvalidateSession(id) =>
                 /\ OthersKeepValidity(id)
                 /\ id \notin DOMAIN sessions =>
                        (auth_ret' = Returned(FALSE) /\ sessions' = sessions)]_vars

C19_Witness ==
    /\ \E id \in invalidated :
           /\ issued[id].expires_at > auth_now
           /\ id \in DOMAIN sessions
           /\ auth_ret = NoSession
    /\ \E other \in DOMAIN issued :
           validate_session(sessions, other, auth_now) = issued[other]

\* C20: after any sequence of set_sensor_weight calls with any values, every
\* entry of the weight table is within [0,1]; a fusion call reads for each
\* reading the table's entry for its sensor type, which is the latest
\* override, and 0.5 for a type with no entry.
C20_WeightsStayInUnit ==
    /\ [](\A t \in DOMAIN sensor_weights :
             IsFinite(sensor_weights[t]) /\ InUnit(sensor_weights[t]))
    /\ [](fresult # NoResult =>
             \A i \in DOMAIN fresult.sensors :
                 fresult.sensors[i].weight =
                     IF readings[i].sensor_type \in DOMAIN sensor_weights
                     THEN sensor_weights[readings[i].sensor_type]
                     ELSE Half)
    /\ [][\A t \in SensorTypes, w \in F64Inputs :
             SetWeight(t, w) =>
                 /\ t \in DOMAIN sensor_weights'
                 /\ (IsFinite(w) /\ InUnit(w)) => sensor_weights'[t] = w
                 /\ \A o \in SensorTypes \ {t} :
                        WeightOf(sensor_weights', o) = WeightOf(sensor_weights, o)]_vars

\* C21: the list detect returns holds at most one anomaly per index and is
\* sorted by score in non-increasing order.
C21_MergedOnePerIndexSortedByScore ==
    dpc = "done" =>
        /\ \A i, j \in DOMAIN merged : i # j => merged[i].index # merged[j].index
        /\ \A i, j \in DOMAIN merged : i < j => merged[i].score >= merged[j].score

\* Two detectors report the same index, and the sort by score moves an
\* anomaly of a higher index to the front.
C21_Witness ==
    /\ dpc = "done"
    /\ Len(merged) = 2
    /\ merged[1].index > merged[2].index
    /\ merged[1].score > merged[2].score
    /\ \E i \in DOMAIN det_stat, j \in DOMAIN det_lof : det_stat[i].index = det_lof[j].index

\* The ChangePoints of one side that detect_cusum pushed for sample i.
ChangePointsAt(out, i, side) == {j \in DOMAIN out : out[j].index = i /\ out[j].side = side}

\* What one sample does to one side: acc is the accumulator before the
\* sample, raised the accumulator with the sample added and floored at 0,
\* acc_next the accumulator after the sample.
SideResets(side, raised, acc_next, h) ==
    IF raised > h
    THEN /\ Cardinality(ChangePointsAt(cusum_out', ci, side)) = 1
         /\ acc_next = 0
    ELSE /\ ChangePointsAt(cusum_out', ci, side) = {}
         /\ acc_next = raised

\* C22: when a side's accumulator exceeds h = 5 sigma at sample i,
\* detect_cusum emits exactly one ChangePoint of that side at index i and
\* that side's accumulator is 0 for sample i + 1; the reset leaves the other
\* side's accumulator as it is; after every sample both accumulators are
\* within [0, h].
C22_CusumResetsAfterTrigger ==
    /\ [](cpc = "loop" =>
             /\ 0 <= cusum_pos /\ cusum_pos <= DecisionInterval(cstd)
             /\ 0 <= cusum_neg /\ cusum_neg <= DecisionInterval(cstd))
    /\ [][CusumStep =>
             /\ SideResets("pos", Max(cusum_pos + cdata[ci + 1] - cmean - Slack(cstd), 0),
                            cusum_pos', DecisionInterval(cstd))
             /\ SideResets("neg", Max(cusum_neg - cdata[ci + 1] + cmean - Slack(cstd), 0),
                            cusum_neg', DecisionInterval(cstd))
             /\ Len(cusum_out') = Len(cusum_out)
                    + Cardinality(ChangePointsAt(cusum_out', ci, "pos"))
                    + Cardinality(ChangePointsAt(cusum_out', ci, "neg"))]_vars

\* The positive side has just been reset at the last sample processed, and
\* the negative side triggered earlier in the window.
C22_Witness ==
    /\ cpc = "loop"
    /\ cusum_out # <<>>
    /\ cusum_out[Len(cusum_out)].index = ci - 1
    /\ cusum_out[Len(cusum_out)].side = "pos"
    /\ cusum_pos = 0
    /\ \E j \in DOMAIN cusum_out : cusum_out[j].side = "neg"

\* C24: detect_cusum never emits two ChangePoints with the same index: the
\* two accumulators are never both over h at the same sample.
C24_CusumOneChangePointPerIndex ==
    /\ \A i, j \in DOMAIN cusum_out : i # j => cusum_out[i].index # cusum_out[j].index
    /\ (cpc = "loop" /\ ci < Len(cdata)) =>
           ~(/\ PosAfter(cusum_pos, cdata[ci + 1], cmean, cstd) > DecisionInterval(cstd)
             /\ NegAfter(cusum_neg, cdata[ci + 1], cmean, cstd) > DecisionInterval(cstd))

\* Both accumulators are above 0 at once in a window in which a side has
\* triggered.
C24_Witness ==
    /\ cpc = "loop"
    /\ cusum_pos > 0
    /\ cusum_neg > 0
    /\ cusum_out # <<>>

\* The sensor identities of the call whose buffer holds an entry.
C23_Sensors == {id \in DOMAIN call.bufs : call.bufs[id] # <<>>}

RECURSIVE C23_ScoreTotal(_)
C23_ScoreTotal(ids) ==
    IF ids = {} THEN 0
    ELSE LET id == CHOOSE x \in ids : TRUE
         IN call.bufs[id][1].anomaly_score + C23_ScoreTotal(ids \ {id})

\* C23: whenever check_correlation reports an event, its confidence is
\* 0.6 * (average anomaly score of the collected entries)
\* + 0.4 * min(1, distinct sensors / 5): the cap at 1 is on the diversity
\* term, for every number of distinct sensors, more than 5 included.
C23_ConfidenceCapsDiversityTerm ==
    (call.fn = "check_correlation" /\ result # NoReturn) =>
        LET n == Cardinality(C23_Sensors)
            avg == Frac(C23_ScoreTotal(C23_Sensors), ScoreScale * n)
            diversity == IF n > 5 THEN One ELSE Frac(n, 5)
        IN result.confidence = FAdd(FMul(avg, Frac(6, 10)), FMul(diversity, Frac(4, 10)))

\* C30: for every event check_correlation returns, lag_ms is the difference
\* between the latest and the earliest timestamp of the collected entries,
\* and 0 <= lag_ms <= correlation_window_ms, whatever timestamps the
\* readings given to add_reading carry.
C30_LagWithinCorrelationWindow ==
    (lastop = "check" /\ corr_event # NoEvent) =>
        /\ \E p \in Collected, q \in Collected :
               /\ \A c \in Collected :
                      /\ buffers[p[1]][p[2]].timestamp <= buffers[c[1]][c[2]].timestamp
                      /\ buffers[c[1]][c[2]].timestamp <= buffers[q[1]][q[2]].timestamp
               /\ corr_event.lag_ms =
                      buffers[q[1]][q[2]].timestamp - buffers[p[1]][p[2]].timestamp
        /\ 0 <= corr_event.lag_ms
        /\ corr_event.lag_ms <= correlation_window_ms

\* The detections record_detection has stored so far, in the order stored.
C25_Stored == IF rec_pc = "stored" THEN Append(published, rec_detection) ELSE published

\* The detections handed to record_detection so far.
C25_Recorded == Len(published) + (IF rec_pc = "idle" THEN 0 ELSE 1)

\* C25: recent_detections holds at most 1000 entries, which are the most
\* recently stored detections in the order stored; detection_count is the
\* number of detections handed to record_detection and is never below the
\* length of recent_detections, between the two lock acquisitions of a
\* record_detection included.
C25_BoundedDetectionHistory ==
    /\ Len(recent_detections) <= RecentLimit
    /\ Len(recent_detections) = Min(RecentLimit, Len(C25_Stored))
    /\ \A i \in DOMAIN recent_detections :
           recent_detections[i] =
               C25_Stored[Len(C25_Stored) - Len(recent_detections) + i]
    /\ detection_count = C25_Recorded
    /\ detection_count >= Len(recent_detections)

\* The 1002nd detection is counted and not yet stored; the history has
\* dropped its first entry.
C25_Witness ==
    /\ rec_pc = "counted"
    /\ detection_count = RecentLimit + 2
    /\ Len(recent_detections) = RecentLimit
    /\ recent_detections[1].id = 2

\* C26: under every interleaving of concurrent publishers, a subscriber of
\* the generic event channel receives the events in strictly increasing id
\* order.
C26_SubscriberSeesIncreasingIds ==
    \A i, j \in DOMAIN ev_received : i < j => ev_received[i] < ev_received[j]

\* C27: after any sequence of add_sensor and remove_sensor calls, the
\* re-adding of an id and a remove_sensor whose disconnect fails included,
\* the health map has an entry for an id exactly when the sensors map has a
\* sensor with that id.
C27_HealthMatchesSensors == DOMAIN reg_health = DOMAIN reg_sensors

\* C28: under every interleaving of incoming connections, handshakes and
\* disconnects, the number of registered clients never exceeds max_clients.
C28_ClientsWithinLimit == Cardinality(DOMAIN ws_clients) <= max_clients

\* At least 5 failed attempts since the last clear, and fewer than 15
\* minutes since the latest of them.
C29_ShouldBeLocked(id) ==
    /\ since_clear[id].count >= 5
    /\ lock_now - since_clear[id].latest < 15

\* C29: is_locked_out(id) is true exactly when id has at least 5 failed
\* attempts since its last clear_failed_attempts and fewer than 15 minutes
\* have passed since the latest; clear_failed_attempts(id) makes it false at
\* once; a failed attempt recorded for one identifier leaves the lockout of
\* every other identifier as it was.
C29_LoginLockout ==
    /\ [](/\ \A id \in Identifiers :
                 is_locked_out(failed_attempts, id, lock_now) <=> C29_ShouldBeLocked(id)
          /\ lock_ret # NoReturn => (lock_ret.locked <=> C29_ShouldBeLocked(lock_ret.identifier)))
    /\ [][\A id \in Identifiers :
              /\ ClearFailedAttempts(id) => ~is_locked_out(failed_attempts', id, lock_now')
              /\ RecordFailedAttempt(id) =>
                     \A other \in Identifiers \ {id} :
                         is_locked_out(failed_attempts', other, lock_now')
                             <=> is_locked_out(failed_attempts, other, lock_now)]_vars

\* alice is locked out, is_locked_out has said so, and bob, with failed
\* attempts of his own below the threshold, is not.
C29_Witness ==
    /\ lock_ret = [identifier |-> "alice", locked |-> TRUE]
    /\ since_clear["alice"].count = 5
    /\ lock_now > since_clear["alice"].latest
    /\ since_clear["bob"].count > 0
    /\ ~is_locked_out(failed_attempts, "bob", lock_now)

====
